---------------------------- MODULE Spec2Model ----------------------------
(***************************************************************************)
(* Model of the scout-report content script (src/unnamed/part_000, lines   *)
(* 1-542): the localStorage cache, the fetcher, the flag placement engine  *)
(* and the per-container orchestration.                                    *)
(*                                                                         *)
(* Strings are sequences of one-character strings, so that trim and        *)
(* toLowerCase are computed.  An optional number (a value that may be      *)
(* undefined) is a set with at most one element.  Date.now() is counted in *)
(* days.                                                                   *)
(***************************************************************************)
EXTENDS Integers, Sequences, FiniteSets, TLC

VARIABLES
    table0,      \* SpecFlags: the rows of the skills table before any call
    table,       \* SpecFlags: the rows of the skills table now
    tableOnce,   \* SpecFlags: the rows as the first applyFlagsToContainer call left them
    scout,       \* SpecFlags: the scout record the calls are made with
    calls,       \* SpecFlags: number of applyFlagsToContainer calls made
    storage,     \* localStorage: a function from the keys present to the stored strings
    now,         \* Date.now(), in days
    ticks,       \* number of advances of the clock so far
    ret,         \* SpecCache: the last cache operation and what it returned
    before,      \* SpecCache: localStorage as it was before the last cache operation
    lastSet,     \* SpecCache: per player id, the record and time of the last set that
                 \* succeeded with no clearAll or failed set after it (none: {})
    nodes,       \* the .playerContainer nodes the host page has created, with the
                 \* state of the processContainerAndStore call made for each
    processedPlayers,  \* Map pid -> scout data
    requests,    \* per player id, the number of fetch() requests issued
    settle,      \* number of pending 100 ms timers of the MutationObserver callback
    started,     \* initialize() has run
    env,         \* what the environment has done so far: localStorage faults,
                 \* CLEAR_CACHE messages, containers removed
    lastFetch,   \* per player id, the record and time of the last fetchScout that
                 \* stored its result, with no cache clear after it (none: {})
    skillName,   \* SpecNormalize: the string given to normalizeSkillName
    normalized,  \* SpecNormalize: the results of its successive applications
    fragment,    \* SpecParse: the dd elements of the fragment given to parseScoutHTML
    parsed,      \* SpecParse: the record returned (none yet: {})
    clock,       \* SpecStagger: milliseconds since the page was loaded
    batchAt,     \* SpecStagger: per node, the clock when a scan scheduled it
    fetchAt      \* SpecStagger: per node, the clock when its fetchScout call began
                 \* (none yet: {})

flagVars == <<table0, table, tableOnce, scout, calls>>
cacheVars == <<storage, now, ticks>>
cacheOpVars == <<ret, before, lastSet>>

pipeVars == <<nodes, processedPlayers, requests, settle, started, env, lastFetch>>

pureVars == <<skillName, normalized, fragment, parsed>>

timeVars == <<clock, batchAt, fetchAt>>

vars == <<flagVars, cacheVars, cacheOpVars, pipeVars, pureVars, timeVars>>

-----------------------------------------------------------------------------
(* Bounds *)

MaxRows == 2     \* rows of a skills table
MaxCalls == 2    \* applyFlagsToContainer calls on one table
MaxTicks == 2    \* advances of the clock
MaxNodes == 2    \* .playerContainer nodes the host page creates
MaxSettle == 1   \* pending 100 ms timers of the observer
MaxPageTicks == 1  \* advances of the clock while the page is open
MaxFaults == 1   \* localStorage accesses that raise while the page is open
MaxClears == 1   \* CLEAR_CACHE messages while the page is open
MaxRemovals == 1 \* containers the host page removes

\* Program constants
CACHE_EXPIRY_DAYS == 30
REQUEST_GAP_MS == 250

-----------------------------------------------------------------------------
(* Strings *)

UpperCase == <<"A","B","C","D","E","F","G","H","I","J","K","L","M",
               "N","O","P","Q","R","S","T","U","V","W","X","Y","Z">>
LowerCase == <<"a","b","c","d","e","f","g","h","i","j","k","l","m",
               "n","o","p","q","r","s","t","u","v","w","x","y","z">>

WhiteSpace == {" ", "\t", "\n"}

toLowerCase(s) ==
    [i \in 1..Len(s) |->
        IF \E j \in 1..Len(UpperCase) : UpperCase[j] = s[i]
        THEN LowerCase[CHOOSE j \in 1..Len(UpperCase) : UpperCase[j] = s[i]]
        ELSE s[i]]

RECURSIVE trimStart(_)
trimStart(s) ==
    IF s # <<>> /\ Head(s) \in WhiteSpace THEN trimStart(Tail(s)) ELSE s

RECURSIVE trimEnd(_)
trimEnd(s) ==
    IF s # <<>> /\ s[Len(s)] \in WhiteSpace
    THEN trimEnd(SubSeq(s, 1, Len(s) - 1))
    ELSE s

trim(s) == trimEnd(trimStart(s))

\* String.prototype.includes
includes(s, sub) ==
    \E i \in 1..(Len(s) - Len(sub) + 1) : SubSeq(s, i, i + Len(sub) - 1) = sub

\* norm(s): s?.trim().toLowerCase()
norm(s) == toLowerCase(trim(s))

sPassing     == <<"P","a","s","s","i","n","g">>
sTackling    == <<"T","a","c","k","l","i","n","g">>
sKeeping     == <<"K","e","e","p","i","n","g">>
sGoalkeeping == <<"G","o","a","l","k","e","e","p","i","n","g">>

SKILL_NAME_ALIAS == <<
    << <<"p","l","a","y"," ","i","n","t","e","l","l","i","g","e","n","c","e">>,
       <<"p","l","a","y"," ","i","n","t","e","l","l","i","g","e","n","c","e">> >>,
    << <<"b","a","l","l"," ","c","o","n","t","r","o","l">>,
       <<"b","a","l","l"," ","c","o","n","t","r","o","l">> >>,
    << <<"a","e","r","i","a","l"," ","p","a","s","s","i","n","g">>,
       <<"a","e","r","i","a","l"," ","p","a","s","s","i","n","g">> >>,
    << <<"s","e","t"," ","p","l","a","y","s">>,
       <<"s","e","t"," ","p","l","a","y","s">> >>,
    << <<"g","o","a","l","k","e","e","p","i","n","g">>,
       <<"k","e","e","p","i","n","g">> >>,
    << <<"k","e","e","p","i","n","g">>, <<"k","e","e","p","i","n","g">> >>,
    << <<"t","a","c","k","l","i","n","g">>, <<"t","a","c","k","l","i","n","g">> >>,
    << <<"p","a","s","s","i","n","g">>, <<"p","a","s","s","i","n","g">> >>,
    << <<"h","e","a","d","i","n","g">>, <<"h","e","a","d","i","n","g">> >>,
    << <<"s","h","o","o","t","i","n","g">>, <<"s","h","o","o","t","i","n","g">> >>,
    << <<"s","p","e","e","d">>, <<"s","p","e","e","d">> >>,
    << <<"s","t","a","m","i","n","a">>, <<"s","t","a","m","i","n","a">> >>,
    << <<"f","o","r","m">>, <<"f","o","r","m">> >>,
    << <<"e","x","p","e","r","i","e","n","c","e">>,
       <<"e","x","p","e","r","i","e","n","c","e">> >> >>

\* mutant: the two names of the goalkeeper skill are aliases of one another
normalizeSkillName_AliasCycle(name) ==
    LET key == norm(name)
    IN  IF key = <<"g","o","a","l","k","e","e","p","i","n","g">> THEN <<"k","e","e","p","i","n","g">>
        ELSE IF key = <<"k","e","e","p","i","n","g">> THEN <<"g","o","a","l","k","e","e","p","i","n","g">>
        ELSE key

\* normalizeSkillName(name): SKILL_NAME_ALIAS.get(key) || key
normalizeSkillName(name) ==
    LET key == norm(name)
        hit == {i \in 1..Len(SKILL_NAME_ALIAS) : SKILL_NAME_ALIAS[i][1] = key}
    IN  IF hit # {} /\ SKILL_NAME_ALIAS[CHOOSE i \in hit : TRUE][2] # <<>>
        THEN SKILL_NAME_ALIAS[CHOOSE i \in hit : TRUE][2]
        ELSE key

-----------------------------------------------------------------------------
(* DOM of a skills table.  A row (tr) is the sequence of its td children;  *)
(* a td has its width attribute (0: none) and the sequence of its child    *)
(* nodes.                                                                  *)

Node(tag, cls, text, src) == [tag |-> tag, cls |-> cls, text |-> text, src |-> src]
Span(cls, text) == Node("span", cls, text, "")
TextNode(text) == Node("#text", "", text, "")
Td(width, children) == [width |-> width, children |-> children]

Min(a, b) == IF a < b THEN a ELSE b

Indices(s) == [i \in 1..Len(s) |-> i]

\* tr.querySelector("td:first-child .clippable")?.textContent, as an optional
nameSpanText(tr) ==
    IF tr = <<>> THEN {}
    ELSE LET spans == SelectSeq(tr[1].children, LAMBDA n : n.cls = "clippable")
         IN  IF spans = <<>> THEN {} ELSE {spans[1].text}

\* mutant: the cells are taken from tds[0], one cell to the left
getFlagCells_FromNameCell(tr) ==
    IF Len(tr) >= 4 THEN <<1, 2, 3>>
    ELSE LET cols == SelectSeq(Indices(tr), LAMBDA i : tr[i].width \in {7, 6})
         IN  SubSeq(cols, 1, Min(3, Len(cols)))

\* mutant: no fallback, a row of fewer than 4 cells has no flag cell
getFlagCells_NoFallback(tr) ==
    IF Len(tr) >= 4 THEN <<2, 3, 4>> ELSE <<>>

\* getFlagCells(tr): the indices in tr of the flag cells, in order
getFlagCells(tr) ==
    IF Len(tr) >= 4 THEN <<2, 3, 4>>
    ELSE LET cols == SelectSeq(Indices(tr), LAMBDA i : tr[i].width \in {7, 6})
         IN  SubSeq(cols, 1, Min(3, Len(cols)))

\* clearFlagCells(cells): td.innerHTML = "" for each cell
clearFlagCells(tr, cells) ==
    [i \in 1..Len(tr) |->
        IF \E k \in 1..Len(cells) : cells[k] = i
        THEN [tr[i] EXCEPT !.children = <<>>]
        ELSE tr[i]]

FLAG_IMG(color) ==
    CASE color = "green"  -> "img/flag_green.png"
      [] color = "yellow" -> "img/flag_yellow.png"
      [] color = "red"    -> "img/flag_red.png"

flagImg(color) == Node("img", "", <<>>, FLAG_IMG(color))

\* mutant: the cells are not cleared before the icons are appended
setFlagsInCells_NoClear(tr, cells, color, count) ==
    LET n == Min(count, Len(cells))
    IN  [i \in 1..Len(tr) |->
            IF \E k \in 1..n : cells[k] = i
            THEN [tr[i] EXCEPT !.children = Append(@, flagImg(color))]
            ELSE tr[i]]

\* setFlagsInCells(cells, color, count)
setFlagsInCells(tr, cells, color, count) ==
    LET cleared == clearFlagCells(tr, cells)
        n == Min(count, Len(cells))
    IN  [i \in 1..Len(tr) |->
            IF \E k \in 1..n : cells[k] = i
            THEN [cleared[i] EXCEPT !.children = Append(@, flagImg(color))]
            ELSE cleared[i]]

\* mutant: one lit star gives a flag too
highCount_OneStarFlag(stars) ==
    IF stars = {4} THEN 3 ELSE IF stars = {3} THEN 2 ELSE IF stars \in {{2}, {1}} THEN 1 ELSE 0

\* highCount: (stars) => stars === 4 ? 3 : stars === 3 ? 2 : stars === 2 ? 1 : 0
highCount(stars) ==
    IF stars = {4} THEN 3 ELSE IF stars = {3} THEN 2 ELSE IF stars = {2} THEN 1 ELSE 0

\* lowSpec: {color, count} or null (the empty set)
lowSpec(stars) ==
    IF stars = {2} THEN {[color |-> "yellow", count |-> 1]}
    ELSE IF stars = {1} THEN {[color |-> "red", count |-> 1]}
    ELSE {}

\* nameToRows, as the key of each row: norm(nameSpan.textContent), or none
\* for a row without a name span (such a row is in no list of the map)
nameToRows(rows) ==
    [i \in 1..Len(rows) |-> {norm(t) : t \in nameSpanText(rows[i])}]

\* the loop "for (const skill of highest)" of the high pass
RECURSIVE highPass(_, _, _, _)
highPass(rows, keys, skills, count) ==
    IF skills = <<>> THEN rows
    ELSE highPass(
            [i \in 1..Len(rows) |->
                IF keys[i] = {norm(Head(skills))}
                THEN setFlagsInCells(rows[i], getFlagCells(rows[i]), "green", count)
                ELSE rows[i]],
            keys, Tail(skills), count)

\* the loop "for (const skill of lowest)" of the low pass
RECURSIVE lowPass(_, _, _, _)
lowPass(rows, keys, skills, spec) ==
    IF skills = <<>> THEN rows
    ELSE lowPass(
            [i \in 1..Len(rows) |->
                IF keys[i] = {norm(Head(skills))}
                THEN LET cells == getFlagCells(rows[i])
                     IN  setFlagsInCells(clearFlagCells(rows[i], cells), cells,
                                         spec.color, spec.count)
                ELSE rows[i]],
            keys, Tail(skills), spec)

\* mutant: the low pass runs before the high pass
applyFlagsToContainer_LowFirst(rows, highest, lowest, starsHigh, starsLow) ==
    IF rows = <<>> THEN rows
    ELSE LET keys == nameToRows(rows)
             hc == highCount(starsHigh)
             ls == lowSpec(starsLow)
             low == IF ls # {}
                    THEN lowPass(rows, keys, lowest, CHOOSE x \in ls : TRUE)
                    ELSE rows
         IN  IF hc > 0 THEN highPass(low, keys, highest, hc) ELSE low

\* mutant: a table without rows gets a row with a flag
applyFlagsToContainer_RowAdded(rows, highest, lowest, starsHigh, starsLow) ==
    IF rows = <<>> THEN << <<Td(7, <<flagImg("green")>>)>> >>
    ELSE rows

applyFlagsToContainer(rows, highest, lowest, starsHigh, starsLow) ==
    IF rows = <<>> THEN rows
    ELSE LET keys == nameToRows(rows)
             hc == highCount(starsHigh)
             ls == lowSpec(starsLow)
             high == IF hc > 0 THEN highPass(rows, keys, highest, hc) ELSE rows
         IN  IF ls # {}
             THEN lowPass(high, keys, lowest, CHOOSE x \in ls : TRUE)
             ELSE high

-----------------------------------------------------------------------------
(* Scout cache (localStorage)                                              *)

CACHE_KEY_PREFIX == <<"m","z","-","s","c","o","u","t","-">>
CACHE_VERSION == <<"v","1">>

\* String.prototype.startsWith
startsWith(s, prefix) ==
    Len(s) >= Len(prefix) /\ SubSeq(s, 1, Len(prefix)) = prefix

getCacheKey(pid) == CACHE_KEY_PREFIX \o CACHE_VERSION \o <<"-">> \o pid

\* A stored string is taken by what JSON.parse makes of it: a SyntaxError
\* ("garbage"), null, or an object with the properties props.
Garbage == [kind |-> "garbage", props |-> [k \in {} |-> 0]]
JsonNull == [kind |-> "null", props |-> [k \in {} |-> 0]]
JsonObject(props) == [kind |-> "object", props |-> props]

\* JSON.stringify of a scout record: a property whose value is undefined is
\* left out
stringifyRecord(o) ==
    [k \in {j \in DOMAIN o : ~(j \in {"starsHigh", "starsLow"} /\ o[j] = {})} |-> o[k]]

\* const { highest, lowest, starsHigh, starsLow } = scoutData
destructure(o) ==
    [highest |-> o.highest, lowest |-> o.lowest,
     starsHigh |-> IF "starsHigh" \in DOMAIN o THEN o.starsHigh ELSE {},
     starsLow |-> IF "starsLow" \in DOMAIN o THEN o.starsLow ELSE {}]

getItem(store, key) == IF key \in DOMAIN store THEN {store[key]} ELSE {}
removeItem(store, key) == [k \in DOMAIN store \ {key} |-> store[k]]
setItem(store, key, value) ==
    [k \in DOMAIN store \cup {key} |-> IF k = key THEN value ELSE store[k]]

\* mutant: an entry is taken as expired from its expiry time on (>= for >)
getCachedScoutData_ExpiredAtExpiry(pid, store, t, throws) ==
    LET key == getCacheKey(pid)
        cached == getItem(store, key)
        miss == [value |-> {}, storage |-> store, raised |-> FALSE]
    IN  IF throws \/ cached = {} THEN miss
        ELSE LET data == CHOOSE d \in cached : TRUE
             IN  IF data.kind # "object" THEN miss
                 ELSE IF /\ "expires" \in DOMAIN data.props
                         /\ data.props.expires # 0
                         /\ t >= data.props.expires
                      THEN [value |-> {}, storage |-> removeItem(store, key),
                            raised |-> FALSE]
                      ELSE [value |-> IF "scoutData" \in DOMAIN data.props
                                      THEN {data.props.scoutData} ELSE {},
                            storage |-> store, raised |-> FALSE]

\* mutant: no try block, so a failing read or parse raises
getCachedScoutData_NoCatch(pid, store, t, throws) ==
    LET key == getCacheKey(pid)
        cached == getItem(store, key)
        miss == [value |-> {}, storage |-> store, raised |-> FALSE]
    IN  IF throws THEN [miss EXCEPT !.raised = TRUE]
        ELSE IF cached = {} THEN miss
        ELSE LET data == CHOOSE d \in cached : TRUE
             IN  IF data.kind # "object" THEN [miss EXCEPT !.raised = TRUE]
                 ELSE IF /\ "expires" \in DOMAIN data.props
                         /\ data.props.expires # 0
                         /\ t > data.props.expires
                      THEN [value |-> {}, storage |-> removeItem(store, key),
                            raised |-> FALSE]
                      ELSE [value |-> IF "scoutData" \in DOMAIN data.props
                                      THEN {data.props.scoutData} ELSE {},
                            storage |-> store, raised |-> FALSE]

\* mutant: an expired entry is reported as a miss and left in localStorage
getCachedScoutData_KeepsExpired(pid, store, t, throws) ==
    LET key == getCacheKey(pid)
        cached == getItem(store, key)
        miss == [value |-> {}, storage |-> store, raised |-> FALSE]
    IN  IF throws \/ cached = {} THEN miss
        ELSE LET data == CHOOSE d \in cached : TRUE
             IN  IF data.kind # "object" THEN miss
                 ELSE IF /\ "expires" \in DOMAIN data.props
                         /\ data.props.expires # 0
                         /\ t > data.props.expires
                      THEN miss
                      ELSE [value |-> IF "scoutData" \in DOMAIN data.props
                                      THEN {data.props.scoutData} ELSE {},
                            storage |-> store, raised |-> FALSE]

\* getCachedScoutData(pid): the value returned (none: null or undefined),
\* localStorage afterwards and whether the call raised (the try block
\* catches everything).  throws: the localStorage access raises.
getCachedScoutData(pid, store, t, throws) ==
    LET key == getCacheKey(pid)
        cached == getItem(store, key)
        miss == [value |-> {}, storage |-> store, raised |-> FALSE]
    IN  IF throws \/ cached = {} THEN miss
        ELSE LET data == CHOOSE d \in cached : TRUE
             IN  IF data.kind # "object" THEN miss
                 ELSE IF /\ "expires" \in DOMAIN data.props
                         /\ data.props.expires # 0
                         /\ t > data.props.expires
                      THEN [value |-> {}, storage |-> removeItem(store, key),
                            raised |-> FALSE]
                      ELSE [value |-> IF "scoutData" \in DOMAIN data.props
                                      THEN {data.props.scoutData} ELSE {},
                            storage |-> store, raised |-> FALSE]

\* mutant: nothing is written
setCachedScoutData_NoWrite(pid, scoutData, store, t, throws) == store

\* mutant: an entry already stored under the key is kept
setCachedScoutData_KeepsExisting(pid, scoutData, store, t, throws) ==
    IF throws \/ getCacheKey(pid) \in DOMAIN store THEN store
    ELSE setItem(store, getCacheKey(pid),
                 JsonObject([scoutData |-> stringifyRecord(scoutData),
                             expires |-> t + CACHE_EXPIRY_DAYS,
                             cached |-> t]))

\* setCachedScoutData(pid, scoutData): localStorage afterwards.
\* throws: setItem raises (quota exceeded, storage unavailable).
setCachedScoutData(pid, scoutData, store, t, throws) ==
    IF throws THEN store
    ELSE setItem(store, getCacheKey(pid),
                 JsonObject([scoutData |-> stringifyRecord(scoutData),
                             expires |-> t + CACHE_EXPIRY_DAYS,
                             cached |-> t]))

\* mutant: only the keys of the current version are taken
cacheKeysOf_CurrentVersion(store) ==
    {k \in DOMAIN store : startsWith(k, CACHE_KEY_PREFIX \o CACHE_VERSION)}

\* the keys clearScoutCache removes
cacheKeysOf(store) == {k \in DOMAIN store : startsWith(k, CACHE_KEY_PREFIX)}

\* clearScoutCache(): the count returned and localStorage afterwards
clearScoutCache(store, throws) ==
    IF throws THEN [count |-> 0, storage |-> store]
    ELSE [count |-> Cardinality(cacheKeysOf(store)),
          storage |-> [k \in DOMAIN store \ cacheKeysOf(store) |-> store[k]]]

\* String.prototype.length of a stored string: the JSON text of an entry as
\* JSON.stringify writes it, the text "null", a text that is no JSON
RECURSIVE numLength(_)
numLength(n) ==
    IF n < 0 THEN 1 + numLength(0 - n)
    ELSE IF n < 10 THEN 1 ELSE 1 + numLength(n \div 10)

RECURSIVE listBodyLength(_)
listBodyLength(l) ==
    IF l = <<>> THEN 0
    ELSE (Len(Head(l)) + 2) + (IF Tail(l) = <<>> THEN 0 ELSE 1)
         + listBodyLength(Tail(l))

keyLength(k) ==
    CASE k = "highest" -> 7 [] k = "lowest" -> 6 [] k = "starsHigh" -> 9
      [] k = "starsLow" -> 8 [] k = "scoutData" -> 9 [] k = "expires" -> 7
      [] k = "cached" -> 6

RECURSIVE objectLength(_)
objectLength(props) ==
    LET valueLength(k) ==
            CASE k \in {"highest", "lowest"} -> 2 + listBodyLength(props[k])
              [] k \in {"starsHigh", "starsLow"} ->
                    numLength(CHOOSE n \in props[k] : TRUE)
              [] k = "scoutData" -> objectLength(props[k])
              [] k \in {"expires", "cached"} -> numLength(props[k])
        RECURSIVE propsLength(_)
        propsLength(ks) ==
            IF ks = {} THEN 0
            ELSE LET k == CHOOSE x \in ks : TRUE
                 IN  keyLength(k) + 3 + valueLength(k)
                     + (IF ks = {k} THEN 0 ELSE 1) + propsLength(ks \ {k})
    IN  2 + propsLength(DOMAIN props)

itemLength(v) ==
    CASE v.kind = "garbage" -> 8
      [] v.kind = "null" -> 4
      [] v.kind = "object" -> objectLength(v.props)

\* mutant: the statistics are taken over every key of localStorage
GET_CACHE_STATS_AllKeys(store, throws) ==
    LET RECURSIVE reduce(_)
        reduce(ks) ==
            IF ks = {} THEN 0
            ELSE LET k == CHOOSE x \in ks : TRUE
                 IN  itemLength(store[k]) + reduce(ks \ {k})
    IN  IF throws THEN [error |-> TRUE, stats |-> {}]
        ELSE [error |-> FALSE,
              stats |-> {[totalCached |-> Cardinality(DOMAIN store),
                          totalSize |-> reduce(DOMAIN store),
                          cacheKeys |-> DOMAIN store]}]

\* the answer of the message listener to GET_CACHE_STATS: the stats (none
\* with an error).  throws: the localStorage access raises.
GET_CACHE_STATS(store, throws) ==
    LET keys == {k \in DOMAIN store : startsWith(k, CACHE_KEY_PREFIX)}
        RECURSIVE reduce(_)
        reduce(ks) ==
            IF ks = {} THEN 0
            ELSE LET k == CHOOSE x \in ks : TRUE
                 IN  itemLength(store[k]) + reduce(ks \ {k})
    IN  IF throws THEN [error |-> TRUE, stats |-> {}]
        ELSE [error |-> FALSE,
              stats |-> {[totalCached |-> Cardinality(keys),
                          totalSize |-> reduce(keys),
                          cacheKeys |-> keys]}]

\* the answer of the message listener to CLEAR_CACHE and localStorage
\* afterwards
CLEAR_CACHE(store, throws) ==
    LET cleared == clearScoutCache(store, throws)
    IN  [clearedCount |-> cleared.count, storage |-> cleared.storage]

-----------------------------------------------------------------------------
(* SpecFlags: applyFlagsToContainer called on one skills table             *)

\* the three trailing cells of a row the host page rendered: empty, or with
\* markup left from before
emptyCells == <<Td(7, <<>>), Td(7, <<>>), Td(6, <<>>)>>
staleCells == <<Td(7, <<flagImg("green")>>), Td(7, <<TextNode(<<"7">>)>>),
                Td(6, <<flagImg("red")>>)>>

nameCell(text) == Td(0, <<Span("clippable", text)>>)

RowShapes == {
    <<nameCell(sPassing)>> \o emptyCells,
    <<nameCell(sTackling)>> \o staleCells,
    <<nameCell(<<" ">> \o sKeeping \o <<"\n">>)>> \o emptyCells,
    \* a row of three cells: the fallback finds two cells by their width
    <<nameCell(sPassing), Td(7, <<TextNode(<<"7">>)>>), Td(6, <<>>)>>,
    \* a row of two cells without width attributes: no flag cell
    <<nameCell(sTackling), Td(0, <<TextNode(<<"7">>)>>)>>,
    \* a row of two cells, one with a width attribute: one flag cell
    <<nameCell(sPassing), Td(7, <<flagImg("red")>>)>>,
    \* a header row: five cells, no name span
    <<Td(0, <<TextNode(<<"S","k","i","l","l">>)>>)>> \o staleCells \o <<Td(0, <<>>)>>
}

RECURSIVE SeqsUpTo(_, _)
SeqsUpTo(S, n) ==
    IF n = 0 THEN {<<>>}
    ELSE LET shorter == SeqsUpTo(S, n - 1)
         IN  shorter \cup {Append(s, x) : s \in shorter, x \in S}

Tables == SeqsUpTo(RowShapes, MaxRows)

\* a lit-star count, or undefined when the block has no star widget
StarCounts == {{}} \cup {{n} : n \in 0..5}

HighestLists == {<<>>, <<sPassing>>, <<sGoalkeeping, sPassing>>, <<sTackling>>}
LowestLists  == {<<>>, <<sTackling>>, <<sPassing>>}

ScoutRecords ==
    [highest : HighestLists, lowest : LowestLists,
     starsHigh : StarCounts, starsLow : StarCounts]

\* the cache, for a specification that does not use it
CacheIdle ==
    /\ storage = [k \in {} |-> Garbage]
    /\ now = 0
    /\ ticks = 0
    /\ ret = [op |-> "none"]
    /\ before = storage
    /\ lastSet = [p \in {} |-> {}]

\* the pure functions, for a specification that does not follow them
PureIdle ==
    /\ skillName = <<>> /\ normalized = <<>>
    /\ fragment = <<>> /\ parsed = {}

\* the pipeline, for a specification that does not use it
PipeIdle ==
    /\ nodes = <<>>
    /\ processedPlayers = [p \in {} |-> 0]
    /\ requests = [p \in {} |-> 0]
    /\ settle = 0
    /\ started = FALSE
    /\ env = [faults |-> 0, clears |-> 0, removals |-> 0]
    /\ lastFetch = [p \in {} |-> {}]
    /\ clock = 0 /\ batchAt = <<>> /\ fetchAt = <<>>

InitFlags ==
    /\ table0 \in Tables
    /\ table = table0
    /\ tableOnce = table0
    /\ scout \in ScoutRecords
    /\ calls = 0
    /\ CacheIdle
    /\ PipeIdle
    /\ PureIdle

ApplyFlags ==
    /\ calls < MaxCalls
    /\ table' = applyFlagsToContainer(table, scout.highest, scout.lowest,
                                      scout.starsHigh, scout.starsLow)
    /\ tableOnce' = IF calls = 0 THEN table' ELSE tableOnce
    /\ calls' = calls + 1
    /\ UNCHANGED <<table0, scout, cacheVars, cacheOpVars, pipeVars, pureVars, timeVars>>

NextFlags == ApplyFlags

SpecFlags == InitFlags /\ [][NextFlags]_vars

-----------------------------------------------------------------------------
(* Properties of the flag placement engine (SpecFlags)                     *)

flagsOf(td) == SelectSeq(td.children, LAMBDA n : n.tag = "img")

\* number of flag icons of a colour in the cells of a row
RECURSIVE countFlags(_, _)
countFlags(tr, color) ==
    IF tr = <<>> THEN 0
    ELSE Len(SelectSeq(flagsOf(Head(tr)), LAMBDA n : n.src = FLAG_IMG(color)))
         + countFlags(Tail(tr), color)

totalFlags(tr) ==
    countFlags(tr, "green") + countFlags(tr, "yellow") + countFlags(tr, "red")

\* the row's displayed name is the name of one of the skills, up to trim and case
namedIn(tr, skills) ==
    \E t \in nameSpanText(tr) : \E j \in 1..Len(skills) : norm(skills[j]) = norm(t)

\* the row's displayed name and one of the skills normalize to the same key
normalizedIn(tr, skills) ==
    \E t \in nameSpanText(tr) : \E j \in 1..Len(skills) :
        normalizeSkillName(skills[j]) = normalizeSkillName(t)

\* the flag-count table of the specification, for star counts 0..4 and absent
TableHigh(stars) ==
    CASE stars = {4} -> 3 [] stars = {3} -> 2 [] stars = {2} -> 1
      [] stars \in {{0}, {1}, {}} -> 0

TableLow(stars) ==
    CASE stars = {1} -> <<"red">> [] stars = {2} -> <<"yellow">>
      [] stars \in {{0}, {3}, {4}, {}} -> <<>>

\* C5: the flag counts follow the table: a row of at least 4 cells named in
\* highest only carries 3, 2, 1 green flags for starsHigh 4, 3, 2 and is left
\* as it was for 0, 1 or absent; a row named in lowest only carries one red
\* flag for starsLow 1, one yellow flag for 2, and is left as it was for 0, 3,
\* 4 or absent.
C5_FlagCountTable ==
    calls >= 1 =>
        \A i \in 1..Len(table) :
            LET tr == table[i]
                inHigh == namedIn(table0[i], scout.highest)
                inLow == namedIn(table0[i], scout.lowest)
            IN  /\ (Len(tr) >= 4 /\ inHigh /\ ~inLow /\ scout.starsHigh # {5}) =>
                      IF TableHigh(scout.starsHigh) > 0
                      THEN /\ countFlags(tr, "green") = TableHigh(scout.starsHigh)
                           /\ totalFlags(tr) = TableHigh(scout.starsHigh)
                      ELSE tr = table0[i]
                /\ (Len(tr) >= 4 /\ inLow /\ ~inHigh /\ scout.starsLow # {5}) =>
                      IF TableLow(scout.starsLow) # <<>>
                      THEN /\ countFlags(tr, TableLow(scout.starsLow)[1]) = 1
                           /\ totalFlags(tr) = 1
                      ELSE tr = table0[i]

C5_Witness ==
    /\ calls >= 1
    /\ scout.starsHigh = {4} /\ scout.starsLow = {2}
    /\ \E i \in 1..Len(table) :
          /\ namedIn(table0[i], scout.highest) /\ ~namedIn(table0[i], scout.lowest)
          /\ Len(table[i]) >= 4 /\ countFlags(table[i], "green") = 3
    /\ \E i \in 1..Len(table) :
          /\ namedIn(table0[i], scout.lowest) /\ ~namedIn(table0[i], scout.highest)
          /\ Len(table[i]) >= 4 /\ countFlags(table[i], "yellow") = 1

\* C6: after applyFlagsToContainer, a row of at least 4 cells named in highest
\* and not in lowest, with highCount > 0, has one green flag in each of the
\* first highCount of its cells 2, 3, 4 and nothing in the others; a row named
\* in lowest, with a low spec, has one flag of the low colour in cell 2 and
\* nothing in cells 3 and 4.
C6_FlagCells ==
    calls >= 1 =>
        \A i \in 1..Len(table) :
            LET tr == table[i]
                hc == highCount(scout.starsHigh)
                ls == lowSpec(scout.starsLow)
            IN  /\ (Len(tr) >= 4 /\ hc > 0 /\ namedIn(table0[i], scout.highest)
                        /\ ~namedIn(table0[i], scout.lowest)) =>
                      \A k \in 1..3 :
                          tr[k + 1].children =
                              IF k <= hc THEN <<flagImg("green")>> ELSE <<>>
                /\ (Len(tr) >= 4 /\ ls # {} /\ namedIn(table0[i], scout.lowest)) =>
                      /\ \E s \in ls : tr[2].children = <<flagImg(s.color)>>
                      /\ tr[3].children = <<>>
                      /\ tr[4].children = <<>>

\* the scenario: {highest: [Passing], lowest: [Tackling], starsHigh: 3,
\* starsLow: 1} on rows Passing and Tackling of 4 cells each
C6_Witness ==
    /\ calls >= 1
    /\ scout = [highest |-> <<sPassing>>, lowest |-> <<sTackling>>,
                starsHigh |-> {3}, starsLow |-> {1}]
    /\ Len(table) = 2 /\ Len(table[1]) = 4 /\ Len(table[2]) = 4
    /\ nameSpanText(table[1]) = {sPassing} /\ nameSpanText(table[2]) = {sTackling}
    /\ table[1][2].children = <<flagImg("green")>>
    /\ table[1][3].children = <<flagImg("green")>>
    /\ table[1][4].children = <<>>
    /\ table[2][2].children = <<flagImg("red")>>
    /\ table[2][3].children = <<>>
    /\ table[2][4].children = <<>>

\* C7: a second applyFlagsToContainer call with the same record leaves the
\* table as the first call left it.
C7_Idempotent == calls = 2 => table = tableOnce

C7_Witness ==
    /\ calls = 2
    /\ \E i \in 1..Len(table) :
          /\ table[i] # table0[i]
          /\ countFlags(table[i], "green") = 2
    /\ \E i \in 1..Len(table) : countFlags(table[i], "red") = 1

\* C8: a row whose displayed name normalizes (trim, lower case, alias table) to
\* the same key as a skill of highest is flagged green: with highCount > 0, a row
\* of at least 4 cells so named, and named in no skill of lowest, has a green
\* flag in cell 2.
C8_AliasMatch ==
    calls >= 1 =>
        \A i \in 1..Len(table) :
            (/\ Len(table[i]) >= 4
             /\ highCount(scout.starsHigh) > 0
             /\ normalizedIn(table0[i], scout.highest)
             /\ ~normalizedIn(table0[i], scout.lowest))
            => table[i][2].children = <<flagImg("green")>>

\* C20: applyFlagsToContainer on a skills table without rows leaves it
\* without rows, whatever the record, and the call returns as any other.
C20_NoRows ==
    (calls >= 1 /\ table0 = <<>>) => (table = table0 /\ tableOnce = table0)

C20_Witness ==
    /\ calls = MaxCalls
    /\ table0 = <<>>
    /\ table = <<>>
    /\ scout.starsHigh = {4} /\ scout.starsLow = {1}
    /\ scout.highest # <<>> /\ scout.lowest # <<>>

-----------------------------------------------------------------------------
(* SpecCache: the cache operations called on a localStorage that holds     *)
(* entries of earlier sessions and of other scripts                        *)

pidA == <<"7","1">>
pidB == <<"7","2">>
pidC == <<"7","3">>
Pids == {pidA, pidB}

recFlags == [highest |-> <<sPassing>>, lowest |-> <<sTackling>>,
             starsHigh |-> {3}, starsLow |-> {1}]
recNoStars == [highest |-> <<sGoalkeeping, sPassing>>, lowest |-> <<>>,
               starsHigh |-> {}, starsLow |-> {}]
CacheRecords == {recFlags, recNoStars}

\* an entry as setCachedScoutData wrote it at time t
entryAt(rec, t) ==
    JsonObject([scoutData |-> stringifyRecord(rec),
                expires |-> t + CACHE_EXPIRY_DAYS, cached |-> t])

oldVersionKey(pid) == CACHE_KEY_PREFIX \o <<"v","0","-">> \o pid
themeKey == <<"t","h","e","m","e">>
otherKey == <<"m","z","-","s","c","o","u","t">>

\* localStorage with 5 entries under the namespace prefix and 2 others
sevenEntries ==
    LET e == entryAt(recFlags, 1 - CACHE_EXPIRY_DAYS)
        keys == {getCacheKey(pidA), getCacheKey(pidB), getCacheKey(pidC),
                 oldVersionKey(pidA), oldVersionKey(pidB), themeKey, otherKey}
    IN  [k \in keys |-> IF k \in {themeKey, otherKey} THEN Garbage ELSE e]

\* localStorage whose values under the cache keys are no cache entries
brokenEntries ==
    [k \in {getCacheKey(pidA), getCacheKey(pidB), themeKey} |->
        IF k = getCacheKey(pidA) THEN Garbage
        ELSE IF k = getCacheKey(pidB) THEN JsonNull
        ELSE JsonObject([k2 \in {} |-> 0])]

InitialStores == {[k \in {} |-> Garbage], sevenEntries, brokenEntries}

ClockSteps == {1, CACHE_EXPIRY_DAYS}

NoRet == [op |-> "none"]

\* CLEAR_CACHE was answered and nothing was written since
sinceClear == ret.op # "none" /\ ret.cleared

\* the single table, for a specification that does not use it
FlagsIdle ==
    /\ table0 = <<>> /\ table = <<>> /\ tableOnce = <<>>
    /\ scout = recNoStars /\ calls = 0

InitCache ==
    /\ storage \in InitialStores
    /\ now = 0
    /\ ticks = 0
    /\ ret = NoRet
    /\ before = storage
    /\ lastSet = [p \in Pids |-> {}]
    /\ FlagsIdle
    /\ PipeIdle
    /\ PureIdle

\* time passes
Tick(d) ==
    /\ ticks < MaxTicks
    /\ now' = now + d
    /\ ticks' = ticks + 1
    /\ UNCHANGED storage

CacheTick ==
    /\ \E d \in ClockSteps : Tick(d)
    /\ UNCHANGED <<flagVars, cacheOpVars, pipeVars, pureVars, timeVars>>

CacheSet ==
    \E p \in Pids, r \in CacheRecords, throws \in BOOLEAN :
        /\ storage' = setCachedScoutData(p, r, storage, now, throws)
        /\ ret' = [op |-> "set", pid |-> p, at |-> now, threw |-> throws,
                   value |-> {}, count |-> 0, cleared |-> sinceClear /\ throws]
        /\ before' = storage
        /\ lastSet' = [lastSet EXCEPT
                         ![p] = IF throws THEN {} ELSE {[rec |-> r, at |-> now]}]
        /\ UNCHANGED <<now, ticks, flagVars, pipeVars, pureVars, timeVars>>

CacheGet ==
    \E p \in Pids, throws \in BOOLEAN :
        LET got == getCachedScoutData(p, storage, now, throws)
        IN  /\ storage' = got.storage
            /\ ret' = [op |-> "get", pid |-> p, at |-> now, threw |-> throws,
                       value |-> got.value, count |-> 0, cleared |-> sinceClear]
            /\ before' = storage
            /\ UNCHANGED <<now, ticks, lastSet, flagVars, pipeVars, pureVars, timeVars>>

CacheClear ==
    \E throws \in BOOLEAN :
        LET cleared == CLEAR_CACHE(storage, throws)
        IN  /\ storage' = cleared.storage
            /\ ret' = [op |-> "clear", pid |-> <<>>, at |-> now, threw |-> throws,
                       value |-> {}, count |-> cleared.clearedCount,
                       cleared |-> sinceClear \/ ~throws]
            /\ before' = storage
            /\ lastSet' = IF throws THEN lastSet ELSE [p \in Pids |-> {}]
            /\ UNCHANGED <<now, ticks, flagVars, pipeVars, pureVars, timeVars>>

CacheStats ==
    \E throws \in BOOLEAN :
        LET answer == GET_CACHE_STATS(storage, throws)
        IN  /\ ret' = [op |-> "stats", pid |-> <<>>, at |-> now, threw |-> throws,
                       value |-> answer.stats, count |-> 0, cleared |-> sinceClear]
            /\ before' = storage
            /\ UNCHANGED <<storage, now, ticks, lastSet, flagVars, pipeVars, pureVars, timeVars>>

NextCache == CacheTick \/ CacheSet \/ CacheGet \/ CacheClear \/ CacheStats

SpecCache == InitCache /\ [][NextCache]_vars

-----------------------------------------------------------------------------
(* Properties of the cache (SpecCache)                                     *)

\* C1: a get(p) that follows a set(p, r), with no set, clearAll or storage
\* failure in between, returns a record with the fields of r up to and
\* including the expiry time (write time + 30 days) and nothing after it.
C1_GetAfterSet ==
    (ret.op = "get" /\ ~ret.threw /\ lastSet[ret.pid] # {}) =>
        \A w \in lastSet[ret.pid] :
            IF ret.at <= w.at + CACHE_EXPIRY_DAYS
            THEN \E v \in ret.value : destructure(v) = w.rec
            ELSE ret.value = {}

\* a get at the expiry time itself, of a record whose star counts are absent
C1_Witness ==
    /\ ret.op = "get" /\ ~ret.threw
    /\ \E w \in lastSet[ret.pid] :
          /\ ret.at = w.at + CACHE_EXPIRY_DAYS
          /\ w.at > 0
          /\ w.rec = recNoStars
          /\ \E v \in ret.value : destructure(v) = w.rec /\ v # w.rec

\* C9: clearAll removes every entry whose key starts with the namespace
\* prefix, whatever its version tag, leaves the other entries as they were
\* and returns the number of entries it removed.
C9_ClearAll ==
    ret.op = "clear" =>
        /\ ret.count = Cardinality(DOMAIN before) - Cardinality(DOMAIN storage)
        /\ \A k \in DOMAIN storage : k \in DOMAIN before /\ storage[k] = before[k]
        /\ ~ret.threw =>
              /\ \A k \in DOMAIN before :
                    k \in DOMAIN storage <=> ~startsWith(k, CACHE_KEY_PREFIX)
              /\ (before = sevenEntries => ret.count = 5)

\* 5 namespaced entries (two of an older version) and 2 others: 5 removed
C9_Witness ==
    /\ ret.op = "clear" /\ ~ret.threw
    /\ before = sevenEntries
    /\ ret.count = 5
    /\ DOMAIN storage = {themeKey, otherKey}

-----------------------------------------------------------------------------
(* Scout report parser.  The document DOMParser makes of a fragment is     *)
(* taken as the sequence of its dd elements; a dd has the text of its      *)
(* first "li > strong" (none: {}), the texts of its "ul li" elements in    *)
(* order and the number of .lit elements in its first .stars element       *)
(* (none: {}).                                                             *)

Dd(strong, lis, stars) == [strong |-> strong, lis |-> lis, stars |-> stars]

\* /potential|youth training speed/i.test(t)
isGenericEntry(t) ==
    \/ includes(toLowerCase(t), <<"p","o","t","e","n","t","i","a","l">>)
    \/ includes(toLowerCase(t), <<"y","o","u","t","h"," ","t","r","a","i","n","i","n","g"," ","s","p","e","e","d">>)

\* the skills of a dd: li texts trimmed, empty and generic entries dropped
skillsOf(dd) ==
    SelectSeq([i \in 1..Len(dd.lis) |-> trim(dd.lis[i])],
              LAMBDA t : t # <<>> /\ ~isGenericEntry(t))

\* the loop "for (const dd of dds)" from the record built so far
RECURSIVE parseLoop(_, _)
parseLoop(dds, acc) ==
    IF dds = <<>> THEN acc
    ELSE LET dd == Head(dds)
             title == {toLowerCase(trim(t)) : t \in dd.strong}
         IN  IF title = {} \/ title = {<<>>} THEN parseLoop(Tail(dds), acc)
             ELSE LET t == CHOOSE x \in title : TRUE
                  IN  IF includes(t, <<"h","i","g","h","e","s","t">>)
                      THEN parseLoop(Tail(dds),
                               [acc EXCEPT !.highest = skillsOf(dd),
                                           !.starsHigh = dd.stars])
                      ELSE IF includes(t, <<"l","o","w","e","s","t">>)
                      THEN parseLoop(Tail(dds),
                               [acc EXCEPT !.lowest = skillsOf(dd),
                                           !.starsLow = dd.stars])
                      ELSE parseLoop(Tail(dds), acc)

\* mutant: the star counts start at 0
parseScoutHTML_ZeroStars(htmlText) ==
    parseLoop(htmlText,
              [highest |-> <<>>, lowest |-> <<>>, starsHigh |-> {0}, starsLow |-> {0}])

parseScoutHTML(htmlText) ==
    parseLoop(htmlText,
              [highest |-> <<>>, lowest |-> <<>>, starsHigh |-> {}, starsLow |-> {}])

sHighestTitle == <<"H","i","g","h","e","s","t"," ","p","o","t","e","n","t","i","a","l">>
sLowestTitle == <<"L","o","w","e","s","t"," ","p","o","t","e","n","t","i","a","l">>

\* a report with both blocks: Passing at 3 lit stars, Tackling at 1
htmlFlags == <<
    Dd({sHighestTitle}, <<sHighestTitle, <<" ">> \o sPassing>>, {3}),
    Dd({sLowestTitle}, <<sLowestTitle, sTackling>>, {1}) >>

\* a report without skills: the blocks hold their titles only
htmlNoInfo == <<
    Dd({sHighestTitle}, <<sHighestTitle>>, {}),
    Dd({}, <<<<"Y","o","u","t","h"," ","t","r","a","i","n","i","n","g"," ","s","p","e","e","d">>>>, {2}) >>

Fragments == {htmlFlags, htmlNoInfo}

-----------------------------------------------------------------------------
(* Orchestration: the container nodes and the calls made for them          *)

Nodes == 1..MaxNodes

rowPassing == <<nameCell(sPassing)>> \o emptyCells
rowTackling == <<nameCell(sTackling)>> \o staleCells

\* A container as the host page renders it: the text of its player id span
\* (none: {}), whether it has a scout report link, the rows of its skills
\* table (none, for no table as for a table without rows).
Container(idText, link, rows) == [idText |-> idText, link |-> link, rows |-> rows]

ContainerKinds == {
    Container({<<" ">> \o pidA}, TRUE, <<rowPassing, rowTackling>>),
    Container({pidB \o <<"\n">>}, TRUE, <<rowPassing, rowTackling>>),
    Container({<<" ">>}, TRUE, <<rowPassing>>),
    Container({pidA}, FALSE, <<rowPassing>>),
    Container({pidA}, TRUE, <<>>) }

\* where: "none" (not created), "doc" (in the document), "gone" (removed)
\* pc: the position of the processContainerAndStore call made for the node
\* waitsFor: the nodes whose delay timers were set with this one's, for an
\*           earlier time
\* scheduled: the number of processContainerAndStore calls made for the node
\* recreated: when the node was scheduled, a processed container of the same
\*            player had been removed and processedPlayers held the player
\* met .. result: what the fetchScout call of the node met and returned
NoNode ==
    [where |-> "none", idText |-> {}, link |-> FALSE, rows |-> <<>>,
     status |-> {}, seen |-> FALSE, pc |-> "idle", delayMs |-> 0, waitsFor |-> {},
     recreated |-> FALSE, scheduled |-> 0,
     met |-> "none", expect |-> {}, prior |-> {},
     requested |-> FALSE, response |-> {}, result |-> {}]

\* getPlayerIdFromContainer(container): the trimmed text, or null ({})
getPlayerIdFromContainer(node) ==
    {trim(t) : t \in {x \in node.idText : trim(x) # <<>>}}

hasScoutLink(node) == node.link

hasPlayerSkillsTable(node) == Len(node.rows) > 0

renderStatus(node, text, className) ==
    [node EXCEPT !.status = {[text |-> text, className |-> className]}]

\* mutant: the scout link is not looked for
processContainerStart_NoLinkCheck(node, delayMs) ==
    IF getPlayerIdFromContainer(node) = {} THEN [node EXCEPT !.pc = "done"]
    ELSE IF ~hasPlayerSkillsTable(node)
    THEN [renderStatus(node, "No skills table", "is-error") EXCEPT !.pc = "done"]
    ELSE [renderStatus(node, "Fetching scout...", "is-loading") EXCEPT
             !.pc = "delay", !.delayMs = delayMs]

\* processContainerAndStore(container, delayMs) up to its first await
processContainerStart(node, delayMs) ==
    IF getPlayerIdFromContainer(node) = {} THEN [node EXCEPT !.pc = "done"]
    ELSE IF ~hasScoutLink(node)
    THEN [renderStatus(node, "No scout link", "is-error") EXCEPT !.pc = "done"]
    ELSE IF ~hasPlayerSkillsTable(node)
    THEN [renderStatus(node, "No skills table", "is-error") EXCEPT !.pc = "done"]
    ELSE [renderStatus(node, "Fetching scout...", "is-loading") EXCEPT
             !.pc = "delay", !.delayMs = delayMs]

\* the nodes getPlayerContainers() returns, in document order (the order in
\* which the host page created them)
getPlayerContainers(ns) == {n \in Nodes : ns[n].where = "doc"}

\* mutant: a container without player id ends the loop over the new containers
processNewContainers_AbortsOnMissingId(ns) ==
    LET new == {n \in getPlayerContainers(ns) : ~ns[n].seen}
        index(n) == Cardinality({m \in new : m < n})
        aborted(n) == \E m \in new : m < n /\ getPlayerIdFromContainer(ns[m]) = {}
    IN  [n \in Nodes |->
            IF n \in new /\ aborted(n)
            THEN [ns[n] EXCEPT !.seen = TRUE]
            ELSE IF n \in new
            THEN processContainerStart(
                     [ns[n] EXCEPT !.seen = TRUE,
                                   !.scheduled = @ + 1,
                                   !.waitsFor = {m \in new : m < n}],
                     index(n) * REQUEST_GAP_MS)
            ELSE ns[n]]

\* mutant: the new containers are not added to processedContainers
processNewContainers_NotMarked(ns) ==
    LET new == {n \in getPlayerContainers(ns) : ~ns[n].seen}
        index(n) == Cardinality({m \in new : m < n})
    IN  [n \in Nodes |->
            IF n \in new
            THEN processContainerStart(
                     [ns[n] EXCEPT !.scheduled = @ + 1,
                                   !.waitsFor = {m \in new : m < n}],
                     index(n) * REQUEST_GAP_MS)
            ELSE ns[n]]

\* mutant: the containers already in processedContainers are taken too
processNewContainers_NoSeenCheck(ns) ==
    LET new == getPlayerContainers(ns)
        index(n) == Cardinality({m \in new : m < n})
    IN  [n \in Nodes |->
            IF n \in new
            THEN processContainerStart(
                     [ns[n] EXCEPT !.seen = TRUE,
                                   !.scheduled = @ + 1,
                                   !.waitsFor = {m \in new : m < n}],
                     index(n) * REQUEST_GAP_MS)
            ELSE ns[n]]

\* mutant: every new container is given the delay 0
processNewContainers_NoStagger(ns) ==
    LET new == {n \in getPlayerContainers(ns) : ~ns[n].seen}
    IN  [n \in Nodes |->
            IF n \in new
            THEN processContainerStart(
                     [ns[n] EXCEPT !.seen = TRUE,
                                   !.scheduled = @ + 1,
                                   !.waitsFor = {m \in new : m < n}],
                     0)
            ELSE ns[n]]

\* processNewContainers(): the nodes afterwards
processNewContainers(ns) ==
    LET new == {n \in getPlayerContainers(ns) : ~ns[n].seen}
        index(n) == Cardinality({m \in new : m < n})
    IN  [n \in Nodes |->
            IF n \in new
            THEN processContainerStart(
                     [ns[n] EXCEPT !.seen = TRUE,
                                   !.scheduled = @ + 1,
                                   !.waitsFor = {m \in new : m < n}],
                     index(n) * REQUEST_GAP_MS)
            ELSE ns[n]]

\* mutant: rendering into a container that left the document raises
processContainerFinish_DetachedRaises(node, scoutData, processed) ==
    [node |-> renderStatus(node, "Scout error: detached", "is-error"),
     processed |-> processed]

\* mutant: the record is applied and not stored
processContainerFinish_NotStored(node, scoutData, processed) ==
    LET d == destructure(scoutData)
    IN  IF Len(d.highest) = 0 /\ Len(d.lowest) = 0
        THEN [node |-> renderStatus(node, "No scout info", "is-error"),
              processed |-> processed]
        ELSE [node |-> renderStatus(
                          [node EXCEPT !.rows = applyFlagsToContainer(
                               @, d.highest, d.lowest, d.starsHigh, d.starsLow)],
                          "Scout flags added", "is-done"),
              processed |-> processed]

\* mutant: a record without skills is stored and applied like any other
processContainerFinish_StoresEmpty(node, scoutData, processed) ==
    LET d == destructure(scoutData)
        pid == CHOOSE p \in getPlayerIdFromContainer(node) : TRUE
    IN  [node |-> renderStatus(
                      [node EXCEPT !.rows = applyFlagsToContainer(
                           @, d.highest, d.lowest, d.starsHigh, d.starsLow)],
                      "Scout flags added", "is-done"),
         processed |-> [p \in DOMAIN processed \cup {pid} |->
                           IF p = pid THEN scoutData ELSE processed[p]]]

\* processContainerAndStore after fetchScout returned scoutData: the node
\* and the processedPlayers map afterwards
processContainerFinish(node, scoutData, processed) ==
    LET d == destructure(scoutData)
        pid == CHOOSE p \in getPlayerIdFromContainer(node) : TRUE
    IN  IF Len(d.highest) = 0 /\ Len(d.lowest) = 0
        THEN [node |-> renderStatus(node, "No scout info", "is-error"),
              processed |-> processed]
        ELSE [node |-> renderStatus(
                          [node EXCEPT !.rows = applyFlagsToContainer(
                               @, d.highest, d.lowest, d.starsHigh, d.starsLow)],
                          "Scout flags added", "is-done"),
              processed |-> [p \in DOMAIN processed \cup {pid} |->
                                IF p = pid THEN scoutData ELSE processed[p]]]

\* the catch block of processContainerAndStore
processContainerCatch(node, message) ==
    renderStatus(node, "Scout error: " \o message, "is-error")

\* mutant: nothing is re-applied
reapplyFlagsToExistingPlayers_Skipped(ns, processed) == ns

\* reapplyFlagsToExistingPlayers(): the nodes afterwards
reapplyFlagsToExistingPlayers(ns, processed) ==
    [n \in Nodes |->
        IF /\ n \in getPlayerContainers(ns)
           /\ getPlayerIdFromContainer(ns[n]) # {}
           /\ \E p \in getPlayerIdFromContainer(ns[n]) : p \in DOMAIN processed
        THEN IF ~hasPlayerSkillsTable(ns[n])
             THEN renderStatus(ns[n], "No skills table", "is-error")
             ELSE LET pid == CHOOSE p \in getPlayerIdFromContainer(ns[n]) : TRUE
                      d == destructure(processed[pid])
                  IN  renderStatus(
                          [ns[n] EXCEPT !.rows = applyFlagsToContainer(
                               @, d.highest, d.lowest, d.starsHigh, d.starsLow)],
                          "Scout flags added", "is-done")
        ELSE ns[n]]

\* A response of fetch(): the promise rejects (status 0), or resolves with a
\* status and a body.
Response(status, html) == [status |-> status, html |-> html]
Responses ==
    {Response(0, <<>>), Response(404, <<>>), Response(500, <<>>)}
    \cup {Response(200, h) : h \in Fragments}

\* mutant: the cache is not consulted
fetchScoutStart_NoCache(pid, store, t, throws) ==
    [kind |-> "request", value |-> {}, storage |-> store]

\* fetchScout(pid) up to its first await: the cache lookup
\* kind: "hit" (value returned), "request" (fetch() called), "throw"
fetchScoutStart(pid, store, t, throws) ==
    LET got == getCachedScoutData(pid, store, t, throws)
    IN  IF got.raised
        THEN [kind |-> "throw", value |-> {}, storage |-> got.storage]
        ELSE IF got.value # {}
        THEN [kind |-> "hit", value |-> got.value, storage |-> got.storage]
        ELSE [kind |-> "request", value |-> {}, storage |-> got.storage]

\* mutant: the body is parsed and stored whatever the status
fetchScoutEnd_NoOkCheck(pid, res, store, t, throws) ==
    IF res.status = 0
    THEN [kind |-> "throw", message |-> "Failed to fetch", value |-> {},
          storage |-> store]
    ELSE LET scoutData == parseScoutHTML(res.html)
         IN  [kind |-> "return", message |-> "", value |-> {scoutData},
              storage |-> setCachedScoutData(pid, scoutData, store, t, throws)]

\* mutant: a failing write is not caught and ends the call
fetchScoutEnd_WriteEscapes(pid, res, store, t, throws) ==
    IF res.status = 0
    THEN [kind |-> "throw", message |-> "Failed to fetch", value |-> {},
          storage |-> store]
    ELSE IF ~(res.status \in 200..299)
    THEN [kind |-> "throw", message |-> "HTTP " \o ToString(res.status),
          value |-> {}, storage |-> store]
    ELSE IF throws
    THEN [kind |-> "throw", message |-> "QuotaExceededError", value |-> {},
          storage |-> store]
    ELSE LET scoutData == parseScoutHTML(res.html)
         IN  [kind |-> "return", message |-> "", value |-> {scoutData},
              storage |-> setCachedScoutData(pid, scoutData, store, t, throws)]

\* fetchScout(pid) from the response on
\* kind: "return" (value returned), "throw" (message thrown)
fetchScoutEnd(pid, res, store, t, throws) ==
    IF res.status = 0
    THEN [kind |-> "throw", message |-> "Failed to fetch", value |-> {},
          storage |-> store]
    ELSE IF ~(res.status \in 200..299)
    THEN [kind |-> "throw", message |-> "HTTP " \o ToString(res.status),
          value |-> {}, storage |-> store]
    ELSE LET scoutData == parseScoutHTML(res.html)
         IN  [kind |-> "return", message |-> "", value |-> {scoutData},
              storage |-> setCachedScoutData(pid, scoutData, store, t, throws)]

-----------------------------------------------------------------------------
(* Spec: the content script on a page whose containers the host page adds  *)
(* and removes                                                             *)

\* localStorage when the page loads
PipeStores ==
    {brokenEntries,
     [k \in {getCacheKey(pidA)} |-> entryAt(recFlags, 1 - CACHE_EXPIRY_DAYS)]}

\* the page is loaded: no container yet, the content script not started
PageLoad ==
    /\ nodes = [n \in Nodes |-> NoNode]
    /\ processedPlayers = [p \in {} |-> 0]
    /\ requests = [p \in Pids |-> 0]
    /\ settle = 0
    /\ started = FALSE
    /\ env = [faults |-> 0, clears |-> 0, removals |-> 0]
    /\ lastFetch = [p \in Pids |-> {}]
    /\ storage \in PipeStores
    /\ now = 1
    /\ ticks = 0
    /\ ret = NoRet
    /\ before = storage
    /\ lastSet = [p \in Pids |-> {}]
    /\ FlagsIdle
    /\ PureIdle

Init == PageLoad /\ clock = 0 /\ batchAt = <<>> /\ fetchAt = <<>>

\* the element of a player container, and the status element renderStatus
\* creates
containerElement == Node("div", "playerContainer", <<>>, "")
statusElement == Span("mz-scout-status", <<>>)

\* mutant: every added or removed element counts as a container change
observerCallback_AnyElement(mutations) ==
    \E node \in mutations : node.tag # "#text"

\* the MutationObserver callback on the added and removed nodes of a batch of
\* childList mutations: hasPlayerContainerChanges.  The nodes the model has
\* are leaves or containers: querySelector(".playerContainer") finds nothing
\* inside an icon, a text or the status element.
observerCallback(mutations) ==
    \E node \in mutations :
        /\ node.tag # "#text"
        /\ node.cls = "playerContainer"

\* the nodes the DOM writes of the pipeline can add or remove in a step that
\* takes the containers from ns to after: the children of the flag cells
\* (td.innerHTML = "", appendChild(flagImg)), the status element and its text
ownWrites(ns, after) ==
    LET rowNodes(tr) ==
            UNION {{tr[c].children[k] : k \in 1..Len(tr[c].children)} :
                      c \in {getFlagCells(tr)[x] : x \in 1..Len(getFlagCells(tr))}}
        cellNodes(rows) == UNION {rowNodes(rows[i]) : i \in 1..Len(rows)}
    IN  UNION {cellNodes(ns[n].rows) \cup cellNodes(after[n].rows) : n \in Nodes}
        \cup {statusElement, TextNode(<<>>), flagImg("green"), flagImg("yellow"),
              flagImg("red")}

\* the pending 100 ms timers after the DOM writes of a step
timersAfter(observing, after) ==
    IF observing /\ observerCallback(ownWrites(nodes, after))
    THEN settle + 1 ELSE settle

\* the pending 100 ms timers after the host page added or removed a player
\* container: one more once the observer is set up
observed ==
    IF started /\ observerCallback({containerElement}) THEN settle + 1 ELSE settle
canObserve == ~started \/ settle < MaxSettle

\* whether a localStorage access raises: at most MaxFaults do
Throws == {FALSE} \cup {t \in {TRUE} : env.faults < MaxFaults}
faulted(throws) == [env EXCEPT !.faults = IF throws THEN @ + 1 ELSE @]

\* the host page renders a new container
HostAdd ==
    \E n \in Nodes, kind \in ContainerKinds :
        /\ canObserve
        /\ nodes[n].where = "none"
        /\ \A m \in Nodes : m < n => nodes[m].where # "none"
        /\ nodes' = [nodes EXCEPT ![n] =
                        [NoNode EXCEPT !.where = "doc", !.idText = kind.idText,
                                       !.link = kind.link, !.rows = kind.rows]]
        /\ settle' = observed
        /\ UNCHANGED <<processedPlayers, requests, started, env, lastFetch,
                       cacheVars, cacheOpVars, flagVars, pureVars, timeVars>>

\* the host page removes a container from the document
HostRemove ==
    \E n \in Nodes :
        /\ canObserve
        /\ env.removals < MaxRemovals
        /\ nodes[n].where = "doc"
        /\ nodes' = [nodes EXCEPT ![n].where = "gone"]
        /\ env' = [env EXCEPT !.removals = @ + 1]
        /\ settle' = observed
        /\ UNCHANGED <<processedPlayers, requests, started, lastFetch,
                       cacheVars, cacheOpVars, flagVars, pureVars, timeVars>>

\* initialize(): the observer is set up and the containers present are processed
Initialize ==
    /\ ~started
    /\ started' = TRUE
    /\ nodes' = processNewContainers(nodes)
    /\ settle' = timersAfter(TRUE, nodes')
    /\ UNCHANGED <<processedPlayers, requests, env, lastFetch,
                   cacheVars, cacheOpVars, flagVars, pureVars, timeVars>>

\* the container n stands where the host page had the container m of the
\* same player, which was processed and has been removed
recreates(n, m) ==
    /\ m # n
    /\ nodes[m].where = "gone"
    /\ nodes[m].pc = "done"
    /\ getPlayerIdFromContainer(nodes[m]) = getPlayerIdFromContainer(nodes[n])

\* the nodes a scan has scheduled, with the recreated ones marked
noteRecreated(after) ==
    [n \in Nodes |->
        IF /\ ~nodes[n].seen
           /\ after[n].seen
           /\ \E p \in getPlayerIdFromContainer(nodes[n]) :
                  p \in DOMAIN processedPlayers
           /\ \E m \in Nodes : recreates(n, m)
        THEN [after[n] EXCEPT !.recreated = TRUE]
        ELSE after[n]]

\* a 100 ms timer of the observer fires
SettleFire ==
    /\ settle > 0
    /\ nodes' = noteRecreated(reapplyFlagsToExistingPlayers(
                    processNewContainers(nodes), processedPlayers))
    /\ settle' = timersAfter(started, nodes') - 1
    /\ UNCHANGED <<processedPlayers, requests, started, env, lastFetch,
                   cacheVars, cacheOpVars, flagVars, pureVars, timeVars>>

pidOf(n) == CHOOSE p \in getPlayerIdFromContainer(nodes[n]) : TRUE

\* what a cache lookup for pid finds in localStorage
lookupMeets(pid, store, t, throws) ==
    LET key == getCacheKey(pid)
    IN  IF throws THEN "threw"
        ELSE IF key \notin DOMAIN store THEN "missing"
        ELSE IF store[key].kind # "object"
                \/ {"scoutData", "expires"} \ DOMAIN store[key].props # {}
        THEN "broken"
        ELSE IF t > store[key].props.expires THEN "expired"
        ELSE "fresh"

\* the delay timer of the node n fires, after the timers set with it for an
\* earlier time: fetchScout is called and runs to its first await
fetchBegins(n, throws) ==
        /\ nodes[n].pc = "delay"
        /\ \A m \in nodes[n].waitsFor : nodes[m].pc # "delay"
        /\ LET pid == pidOf(n)
               f == fetchScoutStart(pid, storage, now, throws)
               meets == lookupMeets(pid, storage, now, throws)
               met == [nodes[n] EXCEPT
                          !.met = meets,
                          !.expect =
                              IF meets = "fresh"
                              THEN {destructure(
                                      storage[getCacheKey(pid)].props.scoutData)}
                              ELSE {},
                          !.prior = {w \in lastFetch[pid] :
                                        now <= w.at + CACHE_EXPIRY_DAYS}]
           IN  /\ storage' = f.storage
               /\ env' = faulted(throws)
               /\ IF f.kind = "request"
                  THEN /\ requests' = [requests EXCEPT ![pid] = @ + 1]
                       /\ nodes' = [nodes EXCEPT ![n] =
                                       [met EXCEPT !.pc = "net", !.requested = TRUE]]
                       /\ UNCHANGED processedPlayers
                  ELSE IF f.kind = "hit"
                  THEN LET value == CHOOSE v \in f.value : TRUE
                           done == processContainerFinish(
                                       [met EXCEPT !.pc = "done",
                                                   !.result = {destructure(value)}],
                                       value, processedPlayers)
                       IN  /\ nodes' = [nodes EXCEPT ![n] = done.node]
                           /\ processedPlayers' = done.processed
                           /\ UNCHANGED requests
                  ELSE /\ nodes' = [nodes EXCEPT ![n] =
                                       processContainerCatch(
                                           [met EXCEPT !.pc = "done"], "SecurityError")]
                       /\ UNCHANGED <<processedPlayers, requests>>
        /\ settle' = timersAfter(started, nodes')
        /\ UNCHANGED <<started, lastFetch, now, ticks, cacheOpVars, flagVars, pureVars>>

TimerFire ==
    \E n \in Nodes, throws \in Throws :
        fetchBegins(n, throws) /\ UNCHANGED timeVars

\* the request of a node is answered and the body read: fetchScout runs to
\* its end and processContainerAndStore with it
NetResponse ==
    \E n \in Nodes, res \in Responses, throws \in Throws :
        /\ nodes[n].pc = "net"
        /\ throws => res.status \in 200..299
        /\ LET pid == pidOf(n)
               f == fetchScoutEnd(pid, res, storage, now, throws)
               met == [nodes[n] EXCEPT !.pc = "done", !.response = {res.status}]
           IN  /\ storage' = f.storage
               /\ env' = faulted(throws)
               /\ IF f.kind = "return"
                  THEN LET value == CHOOSE v \in f.value : TRUE
                           done == processContainerFinish(
                                       [met EXCEPT !.result = {destructure(value)}],
                                       value, processedPlayers)
                       IN  /\ nodes' = [nodes EXCEPT ![n] = done.node]
                           /\ processedPlayers' = done.processed
                           /\ lastFetch' =
                                 IF throws THEN lastFetch
                                 ELSE [lastFetch EXCEPT ![pid] =
                                          {[rec |-> destructure(value), at |-> now, by |-> n]}]
                  ELSE /\ nodes' = [nodes EXCEPT ![n] =
                                       processContainerCatch(met, f.message)]
                       /\ UNCHANGED <<processedPlayers, lastFetch>>
        /\ settle' = timersAfter(started, nodes')
        /\ UNCHANGED <<requests, started, now, ticks, cacheOpVars, flagVars, pureVars, timeVars>>

\* the popup sends CLEAR_CACHE
ClearCacheMessage ==
    \E throws \in Throws :
        LET cleared == clearScoutCache(storage, throws)
        IN  /\ env.clears < MaxClears
            /\ storage' = cleared.storage
            /\ env' = [faulted(throws) EXCEPT !.clears = @ + 1]
            /\ lastFetch' = IF throws THEN lastFetch ELSE [p \in Pids |-> {}]
            /\ UNCHANGED <<nodes, processedPlayers, requests, settle, started,
                           now, ticks, cacheOpVars, flagVars, pureVars, timeVars>>

PageClockSteps == {CACHE_EXPIRY_DAYS + 1}

PipeTick ==
    /\ ticks < MaxPageTicks
    /\ \E d \in PageClockSteps : Tick(d)
    /\ UNCHANGED <<pipeVars, cacheOpVars, flagVars, pureVars, timeVars>>

Next ==
    \/ HostAdd \/ HostRemove \/ Initialize \/ SettleFire
    \/ TimerFire \/ NetResponse \/ ClearCacheMessage \/ PipeTick

Spec == Init /\ [][Next]_vars

-----------------------------------------------------------------------------
(* Properties of fetchScout within the pipeline                            *)

\* C2: when a fetchScout call for a player id with no usable cache entry has
\* requested the page, parsed the 200 response and stored the record, a later
\* call for the same id made while that entry is in the cache, unexpired and
\* readable, finds it there and returns it without a request: of the two
\* calls only the first issues one.
C2_SecondCallHit ==
    \A n \in Nodes :
        (nodes[n].met \notin {"none", "threw"} /\ nodes[n].prior # {}) =>
            \A w \in nodes[n].prior :
                /\ w.by # n
                /\ nodes[w.by].requested
                /\ nodes[w.by].response = {200}
                /\ nodes[w.by].result = {w.rec}
                /\ nodes[n].met = "fresh"
                /\ nodes[n].expect = {w.rec}
                /\ ~nodes[n].requested
                /\ nodes[n].response = {}
                /\ nodes[n].result = {w.rec}

C2_Witness ==
    \E n \in Nodes :
        /\ nodes[n].pc = "done"
        /\ nodes[n].met = "fresh"
        /\ ~nodes[n].requested
        /\ \E w \in nodes[n].prior :
              /\ w.rec = recFlags
              /\ nodes[n].result = {w.rec}
              /\ nodes[w.by].requested
              /\ requests[pidOf(n)] = 1

\* C3: a fetchScout call that finds a readable, unexpired entry for its
\* player id in localStorage returns the record of that entry, issues no
\* request and leaves localStorage as it was.
C3_Step ==
    \A n \in Nodes :
        (/\ nodes[n].pc = "delay"
         /\ nodes'[n].pc # "delay"
         /\ nodes'[n].met # "threw"
         /\ lookupMeets(pidOf(n), storage, now, FALSE) = "fresh") =>
            /\ nodes'[n].result =
                  {destructure(storage[getCacheKey(pidOf(n))].props.scoutData)}
            /\ ~nodes'[n].requested
            /\ nodes'[n].pc = "done"
            /\ requests' = requests
            /\ storage' = storage

C3_CacheHit == [][C3_Step]_vars

C3_Witness ==
    \E n \in Nodes :
        /\ nodes[n].met = "fresh"
        /\ nodes[n].prior = {}
        /\ nodes[n].result = {recFlags}
        /\ ~nodes[n].requested
        /\ requests = [p \in Pids |-> 0]

\* C4: when the response to the request of a fetchScout call has a status
\* outside 200..299, the call ends in that step with the container showing
\* "Scout error: HTTP <status>", no request is issued, and localStorage and
\* processedPlayers are left as they were; a call that has ended issues no
\* request afterwards.
C4_Step ==
    \A n \in Nodes :
        /\ \A s \in nodes'[n].response :
              (nodes[n].pc = "net" /\ s # 0 /\ s \notin 200..299) =>
                  /\ nodes'[n].status =
                        {[text |-> "Scout error: HTTP " \o ToString(s),
                          className |-> "is-error"]}
                  /\ s = 404 =>
                        \A st \in nodes'[n].status :
                            st.text = "Scout error: HTTP 404"
                  /\ nodes'[n].result = {}
                  /\ nodes'[n].pc = "done"
                  /\ requests' = requests
                  /\ storage' = storage
                  /\ processedPlayers' = processedPlayers
        /\ nodes[n].pc = "done" =>
              /\ nodes'[n].pc = "done"
              /\ nodes'[n].requested = nodes[n].requested
              /\ nodes'[n].response = nodes[n].response

C4_HttpError == [][C4_Step]_vars

C4_Witness ==
    \E n \in Nodes :
        /\ nodes[n].pc = "done"
        /\ nodes[n].response = {500}
        /\ nodes[n].status =
              {[text |-> "Scout error: HTTP 500", className |-> "is-error"]}
        /\ requests[pidOf(n)] = 1

\* C10: when the localStorage read of a fetchScout call raises, or the value
\* stored for the player id is not JSON or not an entry object,
\* getCachedScoutData returns nothing without raising and the call goes on
\* to request the page.
C10_MissOnFailure ==
    /\ \A p \in Pids :
          /\ getCachedScoutData(p, storage, now, TRUE) =
                [value |-> {}, storage |-> storage, raised |-> FALSE]
          /\ lookupMeets(p, storage, now, FALSE) = "broken" =>
                getCachedScoutData(p, storage, now, FALSE) =
                    [value |-> {}, storage |-> storage, raised |-> FALSE]
    /\ \A n \in Nodes :
          nodes[n].met \in {"threw", "broken"} =>
              /\ nodes[n].requested
              /\ nodes[n].pc = "net" \/ nodes[n].response # {}

C10_Witness ==
    \E n, m \in Nodes :
        /\ nodes[n].met = "threw"
        /\ nodes[n].response = {200}
        /\ nodes[n].result # {}
        /\ nodes[m].met = "broken"
        /\ nodes[m].requested

-----------------------------------------------------------------------------
(* Properties of the pipeline                                              *)

\* the records parseScoutHTML returns for the bodies of the responses, as
\* processContainerAndStore reads them
parsedRecords == {destructure(parseScoutHTML(h)) : h \in Fragments}

isEmptyRecord(d) == Len(d.highest) = 0 /\ Len(d.lowest) = 0

\* C11: when localStorage.setItem raises in the setCachedScoutData call of a
\* fetchScout call, localStorage is left as it was, the call returns the
\* parsed record and the container is annotated from it: flags and
\* "Scout flags added", or "No scout info" for a record without skills.
C11_Step ==
    \A n \in Nodes :
        (/\ nodes[n].pc = "net"
         /\ nodes'[n].pc = "done"
         /\ env'.faults = env.faults + 1) =>
            /\ storage' = storage
            /\ nodes'[n].response = {200}
            /\ nodes'[n].result # {}
            /\ nodes'[n].result \subseteq parsedRecords
            /\ \A d \in nodes'[n].result :
                  IF isEmptyRecord(d)
                  THEN /\ nodes'[n].status =
                              {[text |-> "No scout info", className |-> "is-error"]}
                       /\ nodes'[n].rows = nodes[n].rows
                  ELSE /\ nodes'[n].status =
                              {[text |-> "Scout flags added", className |-> "is-done"]}
                       /\ nodes'[n].rows =
                              applyFlagsToContainer(nodes[n].rows, d.highest,
                                  d.lowest, d.starsHigh, d.starsLow)
                       /\ pidOf(n) \in DOMAIN processedPlayers'
                       /\ destructure(processedPlayers'[pidOf(n)]) = d

C11_WriteFailure == [][C11_Step]_vars

C11_Witness ==
    \E n \in Nodes :
        /\ env = [faults |-> 1, clears |-> 0, removals |-> 0]
        /\ nodes[n].response = {200}
        /\ nodes[n].result = {recFlags}
        /\ nodes[n].met = "missing"
        /\ getCacheKey(pidOf(n)) \notin DOMAIN storage
        /\ nodes[n].status = {[text |-> "Scout flags added", className |-> "is-done"]}
        /\ \E i \in 1..Len(nodes[n].rows) : totalFlags(nodes[n].rows[i]) > 0



\* C12: when the container of a player whose record is in processedPlayers
\* has been removed and created anew, the processing of the new container
\* issues no request, whatever localStorage holds.
\* The code schedules processContainerAndStore for the new node, and
\* fetchScout consults localStorage only: without a usable entry there it
\* requests the page again.
C12_Step ==
    \A n \in Nodes :
        (/\ nodes[n].pc = "delay"
         /\ nodes'[n].pc # "delay"
         /\ nodes[n].recreated) =>
            requests' = requests

C12_NoRefetch == [][C12_Step]_vars


\* the rows carry the flags of the record d: applying it changes nothing, and
\* the rows named in one list only have the flags of the table
carriesFlags(rows, d) ==
    /\ rows = applyFlagsToContainer(rows, d.highest, d.lowest,
                                    d.starsHigh, d.starsLow)
    /\ \A i \in 1..Len(rows) :
          LET tr == rows[i]
              inHigh == namedIn(tr, d.highest)
              inLow == namedIn(tr, d.lowest)
          IN  /\ (Len(tr) >= 4 /\ inHigh /\ ~inLow /\ d.starsHigh \in {{2}, {3}, {4}}) =>
                    /\ countFlags(tr, "green") = TableHigh(d.starsHigh)
                    /\ totalFlags(tr) = TableHigh(d.starsHigh)
              /\ (Len(tr) >= 4 /\ inLow /\ ~inHigh /\ d.starsLow \in {{1}, {2}}) =>
                    /\ countFlags(tr, TableLow(d.starsLow)[1]) = 1
                    /\ totalFlags(tr) = 1

flagsAdded == {[text |-> "Scout flags added", className |-> "is-done"]}

\* C13: when a 100 ms timer set by the observer has fired, every container in
\* the document that has skills rows and whose player id has a record in
\* processedPlayers carries the flags of that record and the status
\* "Scout flags added".
C13_Step ==
    settle' = settle - 1 =>
        \A n \in Nodes :
            (/\ nodes'[n].where = "doc"
             /\ hasPlayerSkillsTable(nodes'[n])
             /\ getPlayerIdFromContainer(nodes'[n]) # {}
             /\ pidOf(n) \in DOMAIN processedPlayers') =>
                /\ nodes'[n].status = flagsAdded
                /\ carriesFlags(nodes'[n].rows,
                                destructure(processedPlayers'[pidOf(n)]))

C13_Reapplied == [][C13_Step]_vars

\* a container painted by the re-application while its own processing waits
C13_Witness ==
    \E n \in Nodes :
        /\ nodes[n].where = "doc"
        /\ nodes[n].pc = "delay"
        /\ nodes[n].status = flagsAdded
        /\ pidOf(n) \in DOMAIN processedPlayers
        /\ destructure(processedPlayers[pidOf(n)]) = recFlags
        /\ \E i \in 1..Len(nodes[n].rows) : countFlags(nodes[n].rows[i], "green") = 2
        /\ \E i \in 1..Len(nodes[n].rows) : countFlags(nodes[n].rows[i], "red") = 1


\* C14: each container node is scheduled at most once: it is in
\* processedContainers (seen) from the scan that schedules it on, before its
\* processing starts, and a node that is seen is not scheduled by any later
\* scan.
C14_Step ==
    \A n \in Nodes :
        /\ nodes'[n].scheduled > nodes[n].scheduled => ~nodes[n].seen
        /\ nodes[n].seen =>
              /\ nodes'[n].seen
              /\ nodes'[n].scheduled = nodes[n].scheduled
              /\ nodes'[n].delayMs = nodes[n].delayMs
              /\ nodes'[n].pc = "delay" => nodes[n].pc = "delay"

C14_State ==
    \A n \in Nodes :
        /\ nodes[n].scheduled <= 1
        /\ nodes[n].seen <=> nodes[n].scheduled = 1
        /\ nodes[n].pc # "idle" => nodes[n].seen

C14_ScheduledOnce == []C14_State /\ [][C14_Step]_vars

\* two scans have passed over a container that was scheduled by the first
C14_Witness ==
    \E n, m \in Nodes :
        /\ n # m
        /\ nodes[n].scheduled = 1 /\ nodes[m].scheduled = 1
        /\ nodes[n].where = "doc" /\ nodes[m].where = "doc"
        /\ nodes[n].pc = "done"
        /\ n \notin nodes[m].waitsFor /\ m \notin nodes[n].waitsFor
        /\ settle = 0


noSkillsTable == {[text |-> "No skills table", className |-> "is-error"]}

\* C15 as stated: whatever terminal state a container in the document is in,
\* a scan processes it again.
C15_ReEntry ==
    \A n \in Nodes :
        (nodes[n].where = "doc" /\ nodes[n].pc = "done") =>
            processNewContainers(nodes)[n].scheduled > nodes[n].scheduled

\* C15, amended: a container node that has reached a terminal state is never
\* processed again: every scan leaves it as it is, its processing stays
\* ended, and its status changes only when a timer of the observer re-applies
\* a record of processedPlayers to it ("Scout flags added", or "No skills
\* table").
C15_State ==
    \A n \in Nodes :
        nodes[n].pc = "done" => processNewContainers(nodes)[n] = nodes[n]

C15_Step ==
    \A n \in Nodes :
        nodes[n].pc = "done" =>
            /\ nodes'[n].pc = "done"
            /\ nodes'[n].scheduled = nodes[n].scheduled
            /\ nodes'[n].requested = nodes[n].requested
            /\ nodes'[n].status # nodes[n].status =>
                  /\ settle' = settle - 1
                  /\ pidOf(n) \in DOMAIN processedPlayers
                  /\ nodes'[n].status \in {flagsAdded, noSkillsTable}

C15_NoReEntry == []C15_State /\ [][C15_Step]_vars

\* a container that ended with a fetch error, repainted by the re-application
C15_Witness ==
    \E n \in Nodes :
        /\ nodes[n].pc = "done"
        /\ nodes[n].scheduled = 1
        /\ nodes[n].response \in {{404}, {500}}
        /\ nodes[n].status = flagsAdded


-----------------------------------------------------------------------------
(* SpecFair: the pipeline with its timers firing and its requests answered *)

\* A delay timer that is due fires, and a request that is out is answered or
\* rejected: the event loop runs every task that is ready.
\* The page is followed from a load with unusable cache entries, while the
\* host page adds and removes containers.
InitFair == Init /\ storage = brokenEntries

NextFair ==
    \/ HostAdd \/ HostRemove \/ Initialize \/ SettleFire \/ TimerFire
    \/ NetResponse

\* ENABLED <<TimerFire>>_vars, written out: a delay timer is due
timerDue ==
    \E n \in Nodes :
        /\ nodes[n].pc = "delay"
        /\ \A m \in nodes[n].waitsFor : nodes[m].pc # "delay"

\* WF_vars(TimerFire), with its ENABLED written out
TimerFair == []<>(~timerDue) \/ []<><<TimerFire>>_vars

SpecFair ==
    InitFair /\ [][NextFair]_vars /\ TimerFair /\ WF_vars(NetResponse)

scoutError(message) ==
    {[text |-> "Scout error: " \o message, className |-> "is-error"]}

\* C16: a failure in the processing of one container (the request rejected,
\* a status outside 200..299, a failing cache read, no player id) leaves every
\* other container as it was and its processing where it stood; a failed
\* request ends as the "Scout error: ..." status of its own container; a scan
\* that meets a container without player id schedules the other new
\* containers all the same; and every container that was scheduled reaches
\* the end of its processing.
C16_Step ==
    \A n \in Nodes :
        /\ (/\ nodes[n].pc = "net"
            /\ nodes'[n].response \in {{0}, {404}, {500}}) =>
                /\ nodes'[n].pc = "done"
                /\ nodes'[n].status \in
                      {scoutError("Failed to fetch"), scoutError("HTTP 404"),
                       scoutError("HTTP 500")}
                /\ \A m \in Nodes \ {n} : nodes'[m] = nodes[m]
                /\ processedPlayers' = processedPlayers
        /\ (/\ nodes[n].pc = "delay"
            /\ nodes'[n].met \in {"threw", "broken"}) =>
                /\ nodes'[n].pc = "net"
                /\ nodes'[n].status = nodes[n].status
                /\ \A m \in Nodes \ {n} : nodes'[m] = nodes[m]
        /\ (/\ ~nodes[n].seen
            /\ nodes'[n].seen
            /\ getPlayerIdFromContainer(nodes[n]) = {}) =>
                /\ nodes'[n].pc = "done"
                /\ nodes'[n].status = {}
                /\ \A m \in Nodes \ {n} :
                      nodes[m].where = "doc" =>
                          /\ nodes'[m].seen
                          /\ nodes'[m].pc \in {"delay", "net", "done"}
                          /\ nodes'[m].pc = "idle" \/ nodes'[m].scheduled = 1

-----------------------------------------------------------------------------
(* SpecNormalize: normalizeSkillName applied to a string, and again to its *)
(* result                                                                  *)

toUpperCase(s) ==
    [i \in 1..Len(s) |->
        IF \E j \in 1..Len(LowerCase) : LowerCase[j] = s[i]
        THEN UpperCase[CHOOSE j \in 1..Len(LowerCase) : LowerCase[j] = s[i]]
        ELSE s[i]]

capitalize(s) ==
    IF s = <<>> THEN s ELSE toUpperCase(<<Head(s)>>) \o Tail(s)

\* the ways a name is written: as in the table, capitalised, in capitals,
\* with white space around it
Spellings(s) ==
    {s, capitalize(s), toUpperCase(s),
     <<" ">> \o capitalize(s) \o <<"\n">>, <<"\t">> \o s \o <<" ">>}

\* the sources and targets of the alias table, names that are not in it,
\* the empty string and white space
SkillNames ==
    UNION {Spellings(SKILL_NAME_ALIAS[i][1]) \cup Spellings(SKILL_NAME_ALIAS[i][2]) :
              i \in 1..Len(SKILL_NAME_ALIAS)}
    \cup Spellings(<<"c","r","o","s","s"," ","b","a","l","l","s">>) \cup Spellings(<<"g","o","a","l"," ","k","e","e","p","i","n","g">>)
    \cup {<<>>, <<" ">>, <<" ", "\n">>}

InitNormalize ==
    /\ skillName \in SkillNames
    /\ normalized = <<>>
    /\ fragment = <<>> /\ parsed = {}
    /\ FlagsIdle
    /\ CacheIdle
    /\ PipeIdle

Normalize ==
    /\ Len(normalized) < MaxCalls
    /\ normalized' = Append(normalized,
                        normalizeSkillName(IF normalized = <<>> THEN skillName
                                           ELSE normalized[Len(normalized)]))
    /\ UNCHANGED <<skillName, fragment, parsed, flagVars, cacheVars, cacheOpVars, pipeVars, timeVars>>

NextNormalize == Normalize

SpecNormalize == InitNormalize /\ [][NextNormalize]_vars

\* the characters of the strings given
isString(s) == \A i \in 1..Len(s) : s[i] \in STRING

\* C17: normalizeSkillName returns a string for every string, and applied to
\* its own result returns that result: for the sources and the targets of
\* the alias table, for names that are not in it, for the empty string.
C17_Idempotent ==
    /\ Len(normalized) >= 1 =>
          /\ isString(normalized[1])
          /\ norm(normalized[1]) = normalized[1]
    /\ \A i \in 2..Len(normalized) : normalized[i] = normalized[1]

C17_Witness ==
    /\ skillName = <<" ">> \o sGoalkeeping \o <<"\n">>
    /\ normalized = <<toLowerCase(sKeeping), toLowerCase(sKeeping)>>


-----------------------------------------------------------------------------
(* SpecParse: parseScoutHTML applied to a fragment                         *)

MaxBlocks == 3   \* dd elements of a fragment

\* The dd elements a fragment is made of.  DOMParser builds a document from
\* any text, so that a malformed fragment is a fragment with other elements.
ddHighest == Dd({sHighestTitle}, <<sHighestTitle, <<" ">> \o sPassing>>, {3})
ddHighestAgain == Dd({<<"\n">> \o toUpperCase(sHighestTitle)}, <<sKeeping>>, {4})
ddHighestBare == Dd({sHighestTitle}, <<sHighestTitle>>, {})
ddLowest == Dd({sLowestTitle}, <<sLowestTitle, sTackling>>, {1})
ddLowestAgain == Dd({sLowestTitle}, <<sPassing, <<" ">>>>, {0})
ddOther == Dd({<<"T","r","a","i","n","i","n","g"," ","c","a","m","p">>}, <<sPassing>>, {2})
ddNoHeading == Dd({}, <<sTackling>>, {2})
ddBlankHeading == Dd({<<" ">>}, <<sTackling>>, {})

Blocks == {ddHighest, ddHighestAgain, ddHighestBare, ddLowest, ddLowestAgain,
           ddOther, ddNoHeading, ddBlankHeading}

ParseFragments == UNION {[1..n -> Blocks] : n \in 0..MaxBlocks}

InitParse ==
    /\ fragment \in ParseFragments
    /\ parsed = {}
    /\ skillName = <<>> /\ normalized = <<>>
    /\ FlagsIdle
    /\ CacheIdle
    /\ PipeIdle

Parse ==
    /\ parsed = {}
    /\ parsed' = {parseScoutHTML(fragment)}
    /\ UNCHANGED <<skillName, normalized, fragment, flagVars, cacheVars,
                   cacheOpVars, pipeVars, timeVars>>

NextParse == Parse

SpecParse == InitParse /\ [][NextParse]_vars

\* the positions of the blocks whose heading contains the word
blocksOf(dds, word) ==
    {i \in 1..Len(dds) :
        \E t \in dds[i].strong : includes(toLowerCase(trim(t)), word)}

highestBlocks == blocksOf(fragment, <<"h","i","g","h","e","s","t">>)
lowestBlocks == blocksOf(fragment, <<"l","o","w","e","s","t">>)

\* the skills listed in a block: the texts of its entries, without the
\* empty ones and the generic "potential" and "youth training speed" lines
listed(dd) ==
    SelectSeq([i \in 1..Len(dd.lis) |-> trim(dd.lis[i])],
              LAMBDA t : /\ t # <<>>
                         /\ ~includes(toLowerCase(t), <<"p","o","t","e","n","t","i","a","l">>)
                         /\ ~includes(toLowerCase(t), <<"y","o","u","t","h"," ","t","r","a","i","n","i","n","g"," ","s","p","e","e","d">>))

\* C18: parseScoutHTML returns a record for every fragment: without a
\* "highest" block highest is empty and starsHigh absent, without a "lowest"
\* block lowest is empty and starsLow absent (both, for a fragment with
\* neither), and a single block without star widget leaves its star count
\* absent while its skills are taken.
C18_Defaults ==
    \A r \in parsed :
        /\ DOMAIN r = {"highest", "lowest", "starsHigh", "starsLow"}
        /\ highestBlocks = {} => r.highest = <<>> /\ r.starsHigh = {}
        /\ lowestBlocks = {} => r.lowest = <<>> /\ r.starsLow = {}
        /\ (highestBlocks = {} /\ lowestBlocks = {}) =>
              r = [highest |-> <<>>, lowest |-> <<>>,
                   starsHigh |-> {}, starsLow |-> {}]
        /\ \A i \in highestBlocks :
              highestBlocks = {i} =>
                  /\ r.highest = listed(fragment[i])
                  /\ r.starsHigh = fragment[i].stars
        /\ \A i \in lowestBlocks :
              lowestBlocks = {i} =>
                  /\ r.lowest = listed(fragment[i])
                  /\ r.starsLow = fragment[i].stars

\* a fragment with a "lowest" block only, between two elements without
\* recognised heading
C18_Witness ==
    /\ fragment = <<ddOther, ddLowest, ddNoHeading>>
    /\ parsed = {[highest |-> <<>>, lowest |-> <<sTackling>>,
                  starsHigh |-> {}, starsLow |-> {1}]}

\* C19: of several blocks whose heading contains "highest" (or "lowest") the
\* first in document order gives the skill list and the star count.
\* The loop of parseScoutHTML assigns at every matching block, so that the
\* last one is what the record holds.
C19_FirstBlockWins ==
    \A r \in parsed :
        /\ \A i \in highestBlocks :
              (\A j \in highestBlocks : i <= j) =>
                  /\ r.highest = listed(fragment[i])
                  /\ r.starsHigh = fragment[i].stars
        /\ \A i \in lowestBlocks :
              (\A j \in lowestBlocks : i <= j) =>
                  /\ r.lowest = listed(fragment[i])
                  /\ r.starsLow = fragment[i].stars


\* the stats GET_CACHE_STATS answered with (none when it answered an error)
statsOf == IF ret.op = "stats" THEN ret.value ELSE {}

RECURSIVE sizeOfNamespace(_, _)
sizeOfNamespace(store, ks) ==
    IF ks = {} THEN 0
    ELSE LET k == CHOOSE x \in ks : TRUE
         IN  (IF startsWith(k, CACHE_KEY_PREFIX) THEN itemLength(store[k]) ELSE 0)
             + sizeOfNamespace(store, ks \ {k})

\* C21: GET_CACHE_STATS answers with totalCached = the number of stored keys
\* under the namespace prefix, cacheKeys = exactly those keys and totalSize =
\* the sum of the lengths of their stored values; CLEAR_CACHE answers with
\* clearedCount = the number of entries removed, and a GET_CACHE_STATS that
\* follows it with no cache write in between reports totalCached 0.
C21_CacheStats ==
    /\ \A st \in statsOf :
          /\ st.cacheKeys = {k \in DOMAIN storage : startsWith(k, CACHE_KEY_PREFIX)}
          /\ st.totalCached = Cardinality(st.cacheKeys)
          /\ st.totalSize = sizeOfNamespace(storage, DOMAIN storage)
          /\ (storage = sevenEntries => st.totalSize = 5 * itemLength(entryAt(recFlags, 1 - CACHE_EXPIRY_DAYS)))
          /\ (sinceClear => st.totalCached = 0 /\ st.cacheKeys = {})
    /\ (ret.op = "stats" => storage = before /\ (statsOf = {} <=> ret.threw))
    /\ (ret.op = "clear" =>
          ret.count = Cardinality(DOMAIN before \ DOMAIN storage))

\* 5 namespaced entries and 2 others are counted as 5; after CLEAR_CACHE and
\* a read the next GET_CACHE_STATS counts 0 while the 2 others are still there
C21_Witness ==
    /\ ret.op = "stats" /\ sinceClear
    /\ statsOf = {[totalCached |-> 0, totalSize |-> 0, cacheKeys |-> {}]}
    /\ DOMAIN storage = {themeKey, otherKey}


\* the entry stored for the id of the last get, when that get found it expired
expiredAtGet ==
    {e \in getItem(before, getCacheKey(ret.pid)) :
        /\ e.kind = "object"
        /\ "expires" \in DOMAIN e.props
        /\ ret.at > e.props.expires}

\* C25: a get(p) that reads the entry of p after its expiry removes exactly
\* that entry and leaves every other stored entry unchanged; a get(p) on a
\* missing or unexpired entry does not modify storage.
C25_ExpiredRemoved ==
    (ret.op = "get" /\ ~ret.threw) =>
        IF expiredAtGet # {}
        THEN /\ DOMAIN storage = DOMAIN before \ {getCacheKey(ret.pid)}
             /\ \A k \in DOMAIN storage : storage[k] = before[k]
             /\ ret.value = {}
        ELSE storage = before

\* of 5 namespaced entries and 2 others the expired entry of one player is
\* removed: the older-version entry of the same player and the rest stay
C25_Witness ==
    /\ ret.op = "get" /\ ~ret.threw /\ ret.pid = pidA
    /\ before = sevenEntries
    /\ expiredAtGet # {}
    /\ DOMAIN storage = DOMAIN sevenEntries \ {getCacheKey(pidA)}
    /\ oldVersionKey(pidA) \in DOMAIN storage


\* C26: when a skill is listed in both highest and lowest, with highCount > 0
\* and a low spec, its row ends with exactly one flag, of the low colour, in
\* the first of its flag cells and with no green flag (a row without a flag
\* cell is left as it was).
C26_LowWins ==
    (calls >= 1 /\ highCount(scout.starsHigh) > 0) =>
        \A s \in lowSpec(scout.starsLow) : \A i \in 1..Len(table) :
            LET tr == table[i]
                cells == getFlagCells(table0[i])
            IN  (namedIn(table0[i], scout.highest) /\ namedIn(table0[i], scout.lowest)) =>
                    IF cells = <<>> THEN tr = table0[i]
                    ELSE /\ tr[cells[1]].children = <<flagImg(s.color)>>
                         /\ countFlags(tr, s.color) = 1
                         /\ countFlags(tr, "green") = 0
                         /\ totalFlags(tr) = 1

\* Passing in both lists with 4 and 1 stars: the 4-cell row and the 3-cell
\* row named Passing each carry one red flag in their first flag cell
C26_Witness ==
    /\ calls >= 1
    /\ scout = [highest |-> <<sPassing>>, lowest |-> <<sPassing>>,
                starsHigh |-> {4}, starsLow |-> {1}]
    /\ Len(table) = 2 /\ Len(table[1]) = 4 /\ Len(table[2]) = 3
    /\ table[1][2].children = <<flagImg("red")>>
    /\ table[2][2].children = <<flagImg("red")>>
    /\ countFlags(table[1], "green") = 0 /\ countFlags(table[2], "green") = 0


\* the cells of a row that carry a width attribute of 7 or 6
widthCells(tr) == {j \in 1..Len(tr) : tr[j].width \in {7, 6}}

\* C27: in a row of fewer than 4 cells the flag cells are the first up to
\* three cells with a width attribute of 7 or 6; with n < 3 such cells
\* applyFlagsToContainer places min(flag count, n) flags, one in each of the
\* first cells, and ends normally; with n = 0 the row is unchanged.
C27_ShortRow ==
    calls >= 1 =>
        \A i \in 1..Len(table) :
            LET tr0 == table0[i]
                tr == table[i]
                cells == getFlagCells(tr0)
                n == Cardinality(widthCells(tr0))
                hc == highCount(scout.starsHigh)
                ls == lowSpec(scout.starsLow)
                low == ls # {} /\ namedIn(tr0, scout.lowest)
                high == hc > 0 /\ namedIn(tr0, scout.highest)
                placed == IF low THEN Min(1, n) ELSE IF high THEN Min(hc, n) ELSE 0
                color == IF low THEN (CHOOSE s \in ls : TRUE).color ELSE "green"
            IN  Len(tr0) < 4 =>
                  /\ Len(cells) = Min(3, n)
                  /\ \A k \in 1..Len(cells) :
                        /\ cells[k] \in widthCells(tr0)
                        /\ Cardinality({j \in widthCells(tr0) : j < cells[k]}) = k - 1
                  /\ Len(tr) = Len(tr0)
                  /\ \A j \in (1..Len(tr)) \ widthCells(tr0) : tr[j] = tr0[j]
                  /\ (n < 3 /\ (low \/ high)) =>
                        /\ totalFlags(tr) = placed
                        /\ countFlags(tr, color) = placed
                        /\ \A k \in 1..n :
                              tr[cells[k]].children =
                                  IF k <= placed THEN <<flagImg(color)>> ELSE <<>>
                  /\ (n = 0 => tr = tr0)

\* Passing with 4 stars (3 green flags) on rows of 3 cells and of 2 cells:
\* two flags in the two width cells of the first, one in the one of the second
C27_Witness ==
    /\ calls >= 1
    /\ scout.highest = <<sPassing>> /\ scout.starsHigh = {4} /\ scout.lowest = <<>>
    /\ Len(table) = 2 /\ Len(table[1]) = 3 /\ Len(table[2]) = 2
    /\ countFlags(table[1], "green") = 2
    /\ countFlags(table[2], "green") = 1
    /\ table[2][2].children = <<flagImg("green")>>


-----------------------------------------------------------------------------
(* The state machine of a container                                        *)

noScoutLink == {[text |-> "No scout link", className |-> "is-error"]}
noScoutInfo == {[text |-> "No scout info", className |-> "is-error"]}
fetching == {[text |-> "Fetching scout...", className |-> "is-loading"]}

\* the state of the machine a container shows
shown(node) ==
    IF ~node.seen THEN "unseen"
    ELSE IF node.status = {} THEN "scheduled"
    ELSE IF node.status = noScoutLink THEN "no-scout-link"
    ELSE IF node.status = noSkillsTable THEN "no-skills-table"
    ELSE IF node.status = fetching THEN "fetching"
    ELSE IF node.status = noScoutInfo THEN "no-scout-info"
    ELSE IF node.status = flagsAdded THEN "flags-applied"
    ELSE "fetch-error"

\* the arrows of the machine; a scan schedules a container and runs its
\* checks in one step
Arrows ==
    ({"unseen", "scheduled"}
        \X {"scheduled", "no-scout-link", "no-skills-table", "fetching"})
    \cup ({"fetching"} \X {"no-scout-info", "flags-applied", "fetch-error"})

\* C22 as stated: every change of the state a container shows follows an
\* arrow of the machine.
C22_Step0 ==
    \A n \in Nodes :
        shown(nodes'[n]) # shown(nodes[n]) =>
            <<shown(nodes[n]), shown(nodes'[n])>> \in Arrows

C22_MachineArrows == [][C22_Step0]_vars

\* C22, amended: the processing of a container follows the arrows of the
\* machine (scheduled once; then ended by a failed check, or fetching and from
\* there no-scout-info, flags-applied or fetch-error) and sets the status of
\* the state it enters; the only other status changes are those of the
\* re-application of a 100 ms timer of the observer, which shows "Scout flags
\* added" or "No skills table" on a container whose player has a record in
\* processedPlayers, whatever state the container is in.
C22_Step ==
    \A n \in Nodes :
        LET a == nodes[n]
            b == nodes'[n]
            repainted ==
                /\ settle' = settle - 1
                /\ b.where = "doc"
                /\ \E p \in getPlayerIdFromContainer(b) : p \in DOMAIN processedPlayers
                /\ b.status \in {flagsAdded, noSkillsTable}
            checked ==
                IF getPlayerIdFromContainer(a) = {} THEN {}
                ELSE IF ~a.link THEN noScoutLink
                ELSE IF a.rows = <<>> THEN noSkillsTable
                ELSE fetching
        IN  /\ a.seen => b.seen
            /\ b.pc # a.pc =>
                  /\ <<a.pc, b.pc>> \in {<<"idle", "done">>, <<"idle", "delay">>,
                                         <<"delay", "net">>, <<"delay", "done">>,
                                         <<"net", "done">>}
                  /\ a.pc = "idle" =>
                        /\ ~a.seen /\ b.seen
                        /\ b.pc = "delay" <=> checked = fetching
                        /\ b.status = checked \/ repainted
                  /\ b.pc = "net" => b.status = a.status
                  /\ (a.pc # "idle" /\ b.pc = "done") =>
                        shown(b) \in {"no-scout-info", "flags-applied", "fetch-error"}
            /\ (b.pc = a.pc /\ b.status # a.status) => repainted

C22_Processing == [][C22_Step]_vars

\* a container without scout link, scheduled once, that shows "Scout flags
\* added" and carries flags
C22_Witness ==
    \E n \in Nodes :
        /\ nodes[n].where = "doc"
        /\ ~nodes[n].link
        /\ nodes[n].scheduled = 1
        /\ nodes[n].pc = "done"
        /\ ~nodes[n].requested
        /\ nodes[n].status = flagsAdded
        /\ \E i \in 1..Len(nodes[n].rows) : totalFlags(nodes[n].rows[i]) > 0


\* the states in which the processing of a container that passed the checks ends
ended(node) ==
    /\ node.pc = "done"
    /\ shown(node) \in {"no-scout-info", "flags-applied", "fetch-error"}

\* C23: every container that is scheduled and passes the player-id,
\* scout-link and skills-table checks leaves "Fetching scout..." and reaches
\* no-scout-info, flags-applied or fetch-error, when its delay timer fires
\* and its request is answered or rejected; also when the host page removes
\* it from the document while its fetch is in flight: the removal changes
\* nothing of its processing, and a 200 answer that arrives afterwards is
\* rendered as for a container in the document, not as an error.
C23_Step ==
    \A n \in Nodes :
        /\ (nodes[n].where = "doc" /\ nodes'[n].where = "gone") =>
              nodes'[n] = [nodes[n] EXCEPT !.where = "gone"]
        /\ (nodes[n].where = "gone" /\ nodes[n].pc # nodes'[n].pc) =>
              /\ nodes[n].pc \in {"delay", "net"}
              /\ nodes'[n].pc = "done" => ended(nodes'[n])
              /\ nodes'[n].response = {200} =>
                    /\ nodes'[n].result # {}
                    /\ shown(nodes'[n]) =
                          IF \A r \in nodes'[n].result : isEmptyRecord(r)
                          THEN "no-scout-info" ELSE "flags-applied"

C23_Terminates ==
    /\ [][C23_Step]_vars
    /\ \A n \in Nodes :
          (nodes[n].status = fetching /\ nodes[n].pc \in {"delay", "net"})
              ~> ended(nodes[n])

\* a container removed while its request was out, ended with its flags
C23_Witness ==
    \E n \in Nodes :
        /\ nodes[n].where = "gone"
        /\ nodes[n].requested
        /\ nodes[n].response = {200}
        /\ nodes[n].pc = "done"
        /\ nodes[n].status = flagsAdded
        /\ \E i \in 1..Len(nodes[n].rows) : totalFlags(nodes[n].rows[i]) > 0
        /\ \E p \in getPlayerIdFromContainer(nodes[n]) : p \in DOMAIN processedPlayers


-----------------------------------------------------------------------------
(* SpecStagger: the pipeline on a clock in milliseconds.  A delay timer     *)
(* fires when its delay has passed, or later.                               *)

MaxClockMs == 375
ClockStepMs == 125

InitStagger ==
    /\ PageLoad
    /\ storage = brokenEntries
    /\ clock = 0
    /\ batchAt = [n \in Nodes |-> 0]
    /\ fetchAt = [n \in Nodes |-> {}]

\* the clock when each node was scheduled, after a scan made at the clock
scannedAt(after) ==
    [n \in Nodes |-> IF ~nodes[n].seen /\ after[n].seen THEN clock ELSE batchAt[n]]

StaggerInitialize ==
    /\ ~started
    /\ started' = TRUE
    /\ nodes' = processNewContainers(nodes)
    /\ settle' = timersAfter(TRUE, nodes')
    /\ batchAt' = scannedAt(nodes')
    /\ UNCHANGED <<processedPlayers, requests, env, lastFetch, clock, fetchAt,
                   cacheVars, cacheOpVars, flagVars, pureVars>>

StaggerSettle ==
    /\ settle > 0
    /\ nodes' = noteRecreated(reapplyFlagsToExistingPlayers(
                    processNewContainers(nodes), processedPlayers))
    /\ settle' = timersAfter(started, nodes') - 1
    /\ batchAt' = scannedAt(nodes')
    /\ UNCHANGED <<processedPlayers, requests, started, env, lastFetch, clock, fetchAt,
                   cacheVars, cacheOpVars, flagVars, pureVars>>

\* setTimeout(r, delayMs): the callback runs delayMs after the call, or later
StaggerFire ==
    \E n \in Nodes, throws \in Throws :
        /\ clock >= batchAt[n] + nodes[n].delayMs
        /\ fetchBegins(n, throws)
        /\ fetchAt' = [fetchAt EXCEPT ![n] = {clock}]
        /\ UNCHANGED <<clock, batchAt>>

ClockTick ==
    /\ clock < MaxClockMs
    /\ clock' = clock + ClockStepMs
    /\ UNCHANGED <<batchAt, fetchAt, pipeVars, cacheVars, cacheOpVars, flagVars, pureVars>>

NextStagger ==
    \/ HostAdd \/ StaggerInitialize \/ StaggerSettle \/ StaggerFire
    \/ NetResponse \/ ClockTick

SpecStagger == InitStagger /\ [][NextStagger]_vars

\* the index of a node among the containers newly found by its scan
batchIndex(n) == Cardinality(nodes[n].waitsFor)

\* C24: within one scan batch the container at batch index i begins its
\* fetch no earlier than i * 250 ms after the batch was scheduled; the
\* containers of a batch begin their fetches in the order of their indices,
\* no two of them in the same step, and one that began before the time the
\* next is due for has an earlier clock reading.
C24_State ==
    \A n \in Nodes : \A t \in fetchAt[n] :
        /\ t >= batchAt[n] + batchIndex(n) * REQUEST_GAP_MS
        /\ \A m \in nodes[n].waitsFor :
              /\ batchAt[m] = batchAt[n]
              /\ batchIndex(m) < batchIndex(n)
              /\ nodes[m].pc # "delay"
              /\ \A u \in fetchAt[m] :
                    /\ u <= t
                    /\ u < batchAt[n] + batchIndex(n) * REQUEST_GAP_MS => u < t

C24_Step ==
    \A n, m \in Nodes :
        (fetchAt[n] = {} /\ fetchAt'[n] # {} /\ fetchAt[m] = {} /\ fetchAt'[m] # {})
            => n = m

C24_LateTimer ==
    /\ nodes[2].waitsFor = {1}
    /\ fetchAt[1] = {250} /\ fetchAt[2] = {250} /\ batchAt[1] = 0


-----------------------------------------------------------------------------
(* Properties of processedPlayers and of overlapping fetches               *)

\* C28 as stated: once the request of a container was answered 200 and the
\* body parsed, processedPlayers holds an entry for its player id.
C28_EveryParse ==
    \A n \in Nodes :
        (nodes[n].pc = "done" /\ nodes[n].response = {200} /\ nodes[n].result # {}) =>
            pidOf(n) \in DOMAIN processedPlayers

\* C28, amended: once a fetchScout call for a player id has returned a record
\* with a skill in one of its lists (parsed from a 200 answer, or read from
\* the cache), processedPlayers holds an entry for that id; a record with
\* both lists empty adds none; and no step removes an entry.
C28_State ==
    \A n \in Nodes :
        (nodes[n].pc = "done" /\ nodes[n].result # {}) =>
            IF \E r \in nodes[n].result : ~isEmptyRecord(r)
            THEN /\ pidOf(n) \in DOMAIN processedPlayers
                 /\ ~isEmptyRecord(destructure(processedPlayers[pidOf(n)]))
            ELSE \/ pidOf(n) \notin DOMAIN processedPlayers
                 \/ \E m \in Nodes \ {n} :
                       /\ nodes[m].pc = "done"
                       /\ getPlayerIdFromContainer(nodes[m]) = {pidOf(n)}
                       /\ \E r \in nodes[m].result : ~isEmptyRecord(r)

C28_Step ==
    /\ DOMAIN processedPlayers \subseteq DOMAIN processedPlayers'
    /\ \A p \in DOMAIN processedPlayers :
          processedPlayers'[p] # processedPlayers[p] =>
              \E n \in Nodes :
                  /\ nodes[n].pc # "done" /\ nodes'[n].pc = "done"
                  /\ pidOf(n) = p
                  /\ nodes'[n].result = {destructure(processedPlayers'[p])}

C28_EntriesKept == []C28_State /\ [][C28_Step]_vars

\* the record of a player whose container was removed and whose cache entry
\* was cleared is still in the map
C28_Witness ==
    \E n \in Nodes :
        /\ nodes[n].pc = "done" /\ nodes[n].response = {200}
        /\ nodes[n].where = "gone"
        /\ env.clears = 1
        /\ getCacheKey(pidOf(n)) \notin DOMAIN storage
        /\ pidOf(n) \in DOMAIN processedPlayers
        /\ nodes[n].result = {destructure(processedPlayers[pidOf(n)])}

\* C29: a record whose highest and lowest lists are both empty is treated as
\* no usable scout info: the container gets the status "No scout info", its
\* rows are left as they were and processedPlayers is unchanged; every record
\* in processedPlayers has a skill in one of its lists, and so has every
\* record the re-application paints from.
C29_State ==
    \A p \in DOMAIN processedPlayers :
        ~isEmptyRecord(destructure(processedPlayers[p]))

C29_Step ==
    \A n \in Nodes :
        (/\ nodes[n].pc # "done" /\ nodes'[n].pc = "done"
         /\ \E r \in nodes'[n].result : isEmptyRecord(r)) =>
            /\ nodes'[n].status = noScoutInfo
            /\ nodes'[n].rows = nodes[n].rows
            /\ processedPlayers' = processedPlayers
            /\ \A m \in Nodes \ {n} : nodes'[m] = nodes[m]

C29_NoUsableInfo == []C29_State /\ [][C29_Step]_vars

\* a 200 answer without skills: "No scout info", the stale markup of the
\* Tackling row still there, no record for the player
C29_Witness ==
    \E n \in Nodes :
        /\ nodes[n].pc = "done" /\ nodes[n].response = {200}
        /\ \E r \in nodes[n].result : isEmptyRecord(r)
        /\ nodes[n].status = noScoutInfo
        /\ nodes[n].rows = <<rowPassing, rowTackling>>
        /\ pidOf(n) \notin DOMAIN processedPlayers

\* C30: when two fetchScout calls for the same player id both found no usable
\* cache entry and both were answered 200, with no storage failure and no
\* cache clear, both return a record and localStorage holds one well-formed
\* entry under the key of the id: the record and expiry of the call that
\* ended last.  Each call that ends writes its record over what is there.
C30_State ==
    \A n, m \in Nodes :
        (/\ n # m
         /\ nodes[n].requested /\ nodes[m].requested
         /\ nodes[n].response = {200} /\ nodes[m].response = {200}
         /\ getPlayerIdFromContainer(nodes[n]) = getPlayerIdFromContainer(nodes[m])
         /\ env.faults = 0 /\ env.clears = 0) =>
            LET key == getCacheKey(pidOf(n))
            IN  /\ nodes[n].result # {} /\ nodes[m].result # {}
                /\ key \in DOMAIN storage
                /\ storage[key].kind = "object"
                /\ DOMAIN storage[key].props = {"scoutData", "expires", "cached"}
                /\ \E w \in lastFetch[pidOf(n)] :
                      /\ w.by \in {n, m}
                      /\ nodes[w.by].result = {w.rec}
                      /\ destructure(storage[key].props.scoutData) = w.rec
                      /\ storage[key].props.cached = w.at
                      /\ storage[key].props.expires = w.at + CACHE_EXPIRY_DAYS
                /\ \A k \in DOMAIN storage \ {key} :
                      ~startsWith(k, getCacheKey(pidOf(n)))

C30_Step ==
    \A n \in Nodes :
        (/\ nodes[n].pc = "net"
         /\ nodes'[n].response = {200}
         /\ env' = env) =>
            LET key == getCacheKey(pidOf(n))
            IN  /\ DOMAIN storage' = DOMAIN storage \cup {key}
                /\ \A k \in DOMAIN storage \ {key} : storage'[k] = storage[k]
                /\ storage'[key].kind = "object"
                /\ nodes'[n].result = {destructure(storage'[key].props.scoutData)}
                /\ storage'[key].props.expires = now + CACHE_EXPIRY_DAYS
                /\ lastFetch'[pidOf(n)] =
                      {[rec |-> destructure(storage'[key].props.scoutData),
                        at |-> now, by |-> n]}

C30_LastWriterWins == []C30_State /\ [][C30_Step]_vars

\* both requests were out together; the first answered carried skills, the
\* second none: the entry is the second's
C30_Witness ==
    /\ nodes[1].requested /\ nodes[2].requested
    /\ nodes[1].response = {200} /\ nodes[2].response = {200}
    /\ getPlayerIdFromContainer(nodes[1]) = getPlayerIdFromContainer(nodes[2])
    /\ env.faults = 0 /\ env.clears = 0 /\ ticks = 0
    /\ \E r \in nodes[1].result : ~isEmptyRecord(r)
    /\ \E r \in nodes[2].result : isEmptyRecord(r)
    /\ \E w \in lastFetch[pidOf(1)] : w.by = 2
    /\ nodes[2].result = {destructure(storage[getCacheKey(pidOf(1))].props.scoutData)}


-----------------------------------------------------------------------------
(* SpecReflag: applyFlagsToContainer called again and again on one skills  *)
(* table, with the record processedPlayers holds at the time of each call  *)

MaxReapplies == 3

\* the records a player's entry of processedPlayers goes through when the
\* report is fetched anew
ReflagRecords == {
    [highest |-> <<sPassing>>, lowest |-> <<sTackling>>, starsHigh |-> {4}, starsLow |-> {1}],
    [highest |-> <<sTackling>>, lowest |-> <<sPassing>>, starsHigh |-> {2}, starsLow |-> {2}],
    [highest |-> <<sGoalkeeping, sPassing>>, lowest |-> <<>>, starsHigh |-> {3}, starsLow |-> {}],
    [highest |-> <<sPassing>>, lowest |-> <<sPassing>>, starsHigh |-> {4}, starsLow |-> {1}],
    [highest |-> <<>>, lowest |-> <<sTackling>>, starsHigh |-> {}, starsLow |-> {2}],
    [highest |-> <<sPassing>>, lowest |-> <<sTackling>>, starsHigh |-> {1}, starsLow |-> {3}] }

InitReflag ==
    /\ table0 \in Tables
    /\ table = table0
    /\ tableOnce = table0
    /\ scout = recNoStars
    /\ calls = 0
    /\ CacheIdle
    /\ PipeIdle
    /\ PureIdle

Reapply ==
    \E r \in ReflagRecords :
        /\ calls < MaxReapplies
        /\ table' = applyFlagsToContainer(table, r.highest, r.lowest,
                                          r.starsHigh, r.starsLow)
        /\ scout' = r
        /\ tableOnce' = IF calls = 0 THEN table' ELSE tableOnce
        /\ calls' = calls + 1
        /\ UNCHANGED <<table0, cacheVars, cacheOpVars, pipeVars, pureVars, timeVars>>

NextReflag == Reapply

SpecReflag == InitReflag /\ [][NextReflag]_vars

\* the colour of the flag icons of a cell
colorsOf(td) ==
    {c \in {"green", "yellow", "red"} :
        \E k \in 1..Len(td.children) : td.children[k] = flagImg(c)}

\* the row is one the calls so far have written to: it is not as the host
\* page rendered it, or the last call set its flags
writtenTo(i) ==
    \/ table[i] # table0[i]
    \/ /\ calls >= 1
       /\ getFlagCells(table0[i]) # <<>>
       /\ \/ highCount(scout.starsHigh) > 0 /\ namedIn(table0[i], scout.highest)
          \/ lowSpec(scout.starsLow) # {} /\ namedIn(table0[i], scout.lowest)

\* C32: after any sequence of applyFlagsToContainer calls, in every row the
\* calls have written to each flag cell holds at most one flag icon, the row
\* holds flags of one colour only, the cells with a green flag are a left
\* prefix of the flag cells, and a yellow or red flag is in the first flag
\* cell only.
C32_RowShape ==
    \A i \in 1..Len(table) :
        writtenTo(i) =>
            LET tr == table[i]
                cells == getFlagCells(tr)
            IN  /\ \A k \in 1..Len(cells) :
                      /\ Len(flagsOf(tr[cells[k]])) <= 1
                      /\ "green" \in colorsOf(tr[cells[k]]) =>
                            \A j \in 1..k : colorsOf(tr[cells[j]]) = {"green"}
                      /\ colorsOf(tr[cells[k]]) \cap {"yellow", "red"} # {} => k = 1
                /\ Cardinality(UNION {colorsOf(tr[j]) : j \in 1..Len(tr)}) <= 1
                /\ totalFlags(tr) =
                      Cardinality({k \in 1..Len(cells) : colorsOf(tr[cells[k]]) # {}})

\* three calls with three records on the row Tackling the host page left
\* with stale markup: one red flag, then one green, then one yellow
C32_Witness ==
    /\ calls = 3
    /\ scout.starsLow = {2} /\ scout.lowest = <<sTackling>> /\ scout.highest = <<>>
    /\ Len(table) = 2
    /\ table0[2] = <<nameCell(sTackling)>> \o staleCells
    /\ tableOnce[2][2].children = <<flagImg("red")>>
    /\ table[2] = <<nameCell(sTackling), Td(7, <<flagImg("yellow")>>), Td(7, <<>>), Td(6, <<>>)>>
    /\ table[1] # table0[1]


-----------------------------------------------------------------------------
(* SpecQuiet: SpecFair with the 100 ms timers of the observer firing       *)

\* WF_vars(SettleFire), with its ENABLED written out
SettleFair == []<>(settle = 0) \/ []<><<SettleFire>>_vars

SpecQuiet ==
    InitFair /\ [][NextFair]_vars /\ TimerFair /\ SettleFair /\ WF_vars(NetResponse)

\* the host page adds or removes a container in the step
hostStep == \E n \in Nodes : nodes'[n].where # nodes[n].where

\* no timer is pending and no request is out
quiescent ==
    /\ started
    /\ settle = 0
    /\ \A n \in Nodes : nodes[n].pc \notin {"delay", "net"}

\* C31: the DOM writes of the pipeline (flag icons inserted or cleared, the
\* status element added or updated) never make the observer set its 100 ms
\* timer; only a mutation that adds or removes a player container does.  Once
\* the content script runs, the system comes to rest with no timer pending,
\* no request out, and from there only a change of the host page makes it
\* write to the DOM or set a timer again.
C31_Step ==
    /\ ~hostStep =>
          /\ settle' <= settle
          /\ nodes' # nodes => ~observerCallback(ownWrites(nodes, nodes'))
    /\ (hostStep /\ started) => settle' = settle + 1
    /\ (quiescent /\ ~hostStep) => (nodes' = nodes /\ settle' = 0)

C31_Quiescent ==
    /\ [][C31_Step]_vars
    /\ started ~> []quiescent

\* at rest after a removal was observed: the timer has fired, one container
\* carries its flags, nothing is pending
C31_Witness ==
    /\ quiescent
    /\ env.removals = 1
    /\ \E n \in Nodes :
          /\ nodes[n].where = "doc"
          /\ nodes[n].status = flagsAdded
          /\ \E i \in 1..Len(nodes[n].rows) : totalFlags(nodes[n].rows[i]) > 0
    /\ \E n \in Nodes : nodes[n].where = "gone" /\ nodes[n].pc = "done"

=============================================================================
